---- MODULE Spec2Model ----
(***************************************************************************)
(* Extraction validators of backend/app.py: the loops that turn the JSON   *)
(* array answered by the vision model into holdings (parse_portfolio_image)*)
(* and trades (parse_trade_image_with_gemini).                             *)
(*                                                                         *)
(* A JSON value, as json.loads builds it, is a record                      *)
(*   [t, n, s, d, a]                                                       *)
(* t : the Python type ("null", "bool", "int", "bigint", "float", "nan",   *)
(*     "inf", "str", "list", "dict")                                       *)
(* n : the number: an int's value, a bool as 0/1, a finite float in        *)
(*     thousandths (fixed point), the sign of an infinity or of a bigint   *)
(* s : a str's characters, one per element                                 *)
(* d : a dict's items, a function from its keys to JSON values             *)
(* a : a list's elements                                                   *)
(* "bigint" is a Python int too large for a C double (a JSON integer       *)
(* literal of more than 309 digits); "nan" and "inf" are the floats that   *)
(* json.loads builds from NaN, Infinity, -Infinity and 1e400, and that     *)
(* float() builds from the strings "nan" and "inf".                        *)
(***************************************************************************)
EXTENDS Integers, Sequences, FiniteSets, TLC

VARIABLES
    call,               \* the function that runs
    parsed,             \* what json.loads returned, before the loop touches it
    assets,             \* parse_portfolio_image: the list the loop iterates
    validated_assets,   \* parse_portfolio_image: the list under construction
    trades,             \* parse_trade_image_with_gemini: the list iterated
    validated_trades,   \* parse_trade_image_with_gemini: under construction
    i,                  \* number of elements the for loop has consumed
    pc,                 \* "loop" while the for loop runs, then "done"
    result,             \* the value the function returned
    raised,             \* the exception the outer handler caught, or "none"
    request,            \* the HTTP request an endpoint is serving or has served
    response,           \* the HTTP response to it, or "none" before the answer
    gemini,             \* what the extraction model does for each image sent
    yf,                 \* what the quote provider does for each ticker symbol
    supabase,           \* whether the store client is configured
    db,                 \* the rows of the store, table by table
    before,             \* the rows of the store when the request arrived
    store_calls,        \* the calls the request made on the store, in order
    served,             \* number of requests the store endpoints have served
    session,            \* the user of the session the store client holds
    portfolio           \* the Portfolio object of main.py

(* the state of the two validation loops *)
validator_vars == <<call, parsed, assets, validated_assets, trades, validated_trades,
                    i, pc, result, raised>>

(* the state of the endpoints and of the services they call *)
api_vars == <<request, response, gemini, yf, supabase, db, before, store_calls, served,
              session, portfolio>>

vars == <<validator_vars, api_vars>>

-----------------------------------------------------------------------------
(* JSON values *)

Scale == 10 * 10 * 10

NoDict == <<>>

JNull == [t |-> "null", n |-> 0, s |-> <<>>, d |-> NoDict, a |-> <<>>]

JBool(b) == [t |-> "bool", n |-> IF b THEN 1 ELSE 0, s |-> <<>>, d |-> NoDict, a |-> <<>>]

JInt(k) == [t |-> "int", n |-> k, s |-> <<>>, d |-> NoDict, a |-> <<>>]

JBigInt == [t |-> "bigint", n |-> 1, s |-> <<>>, d |-> NoDict, a |-> <<>>]

JFloat(m) == [t |-> "float", n |-> m, s |-> <<>>, d |-> NoDict, a |-> <<>>]

JNaN == [t |-> "nan", n |-> 0, s |-> <<>>, d |-> NoDict, a |-> <<>>]

JInf(sign) == [t |-> "inf", n |-> sign, s |-> <<>>, d |-> NoDict, a |-> <<>>]

JStr(chars) == [t |-> "str", n |-> 0, s |-> chars, d |-> NoDict, a |-> <<>>]

JList(items) == [t |-> "list", n |-> 0, s |-> <<>>, d |-> NoDict, a |-> items]

JDict(items) == [t |-> "dict", n |-> 0, s |-> <<>>, d |-> items, a |-> <<>>]

(* Python truth value of a JSON value: None, False, 0, 0.0, "", [] and {}  *)
(* are false, everything else (NaN included) is true.                      *)
Truthy(v) ==
    CASE v.t = "null" -> FALSE
      [] v.t \in {"bool", "int", "float"} -> v.n # 0
      [] v.t = "str" -> v.s # <<>>
      [] v.t = "list" -> v.a # <<>>
      [] v.t = "dict" -> DOMAIN v.d # {}
      [] OTHER -> TRUE

(* dict operations: key in d, d.get(key, default), d[key] = value *)
Has(d, key) == key \in DOMAIN d

Get(d, key, default) == IF key \in DOMAIN d THEN d[key] ELSE default

Put(d, key, value) ==
    [k \in DOMAIN d \cup {key} |-> IF k = key THEN value ELSE d[k]]

-----------------------------------------------------------------------------
(* float(x) *)

Digits == <<"0", "1", "2", "3", "4", "5", "6", "7", "8", "9">>

IsDigit(c) == \E k \in 1..Len(Digits) : Digits[k] = c

DigitVal(c) == (CHOOSE k \in 1..Len(Digits) : Digits[k] = c) - 1

LowerLetters == <<"a", "b", "c", "d", "e", "f", "g", "h", "i", "j", "k", "l", "m",
                  "n", "o", "p", "q", "r", "s", "t", "u", "v", "w", "x", "y", "z">>

UpperLetters == <<"A", "B", "C", "D", "E", "F", "G", "H", "I", "J", "K", "L", "M",
                  "N", "O", "P", "Q", "R", "S", "T", "U", "V", "W", "X", "Y", "Z">>

LowerChar(c) ==
    IF \E k \in 1..Len(UpperLetters) : UpperLetters[k] = c
    THEN LowerLetters[CHOOSE k \in 1..Len(UpperLetters) : UpperLetters[k] = c]
    ELSE c

UpperChar(c) ==
    IF \E k \in 1..Len(LowerLetters) : LowerLetters[k] = c
    THEN UpperLetters[CHOOSE k \in 1..Len(LowerLetters) : LowerLetters[k] = c]
    ELSE c

LowerStr(chars) == [k \in 1..Len(chars) |-> LowerChar(chars[k])]

UpperStr(chars) == [k \in 1..Len(chars) |-> UpperChar(chars[k])]

RECURSIVE StripLeft(_)
StripLeft(chars) ==
    IF chars # <<>> /\ Head(chars) = " " THEN StripLeft(Tail(chars)) ELSE chars

RECURSIVE StripRight(_)
StripRight(chars) ==
    IF chars # <<>> /\ chars[Len(chars)] = " "
    THEN StripRight(SubSeq(chars, 1, Len(chars) - 1))
    ELSE chars

Strip(chars) == StripRight(StripLeft(chars))

(* value of a run of decimal digits *)
RECURSIVE DigitsToNat(_)
DigitsToNat(chars) ==
    IF chars = <<>> THEN 0
    ELSE 10 * DigitsToNat(SubSeq(chars, 1, Len(chars) - 1)) + DigitVal(chars[Len(chars)])

(* the fraction digits as thousandths; digits past the third are dropped  *)
FracToMilli(chars) ==
    LET pad == chars \o <<"0", "0", "0">>
    IN DigitsToNat(SubSeq(pad, 1, 3))

(* float(str): surrounding blanks are ignored, then an optional sign and   *)
(* "nan", "inf", "infinity" in any case, or decimal digits with at most    *)
(* one point and at least one digit.  Anything else is a ValueError.       *)
(* Exponents and digit-group underscores are not modelled: no string of    *)
(* the model's inputs has them.                                            *)
ParseFloat(chars) ==
    LET st == Strip(chars)
        signed == st # <<>> /\ Head(st) \in {"+", "-"}
        sign == IF signed /\ Head(st) = "-" THEN -1 ELSE 1
        body == IF signed THEN Tail(st) ELSE st
        low == LowerStr(body)
        dots == {k \in 1..Len(body) : body[k] = "."}
        rest == {k \in 1..Len(body) : ~IsDigit(body[k]) /\ body[k] # "."}
        dot == IF dots = {} THEN Len(body) + 1 ELSE CHOOSE k \in dots : TRUE
        whole == SubSeq(body, 1, dot - 1)
        frac == SubSeq(body, dot + 1, Len(body))
    IN  IF low = <<"n", "a", "n">> THEN [exc |-> "none", v |-> JNaN]
        ELSE IF low = <<"i", "n", "f">> \/ low = <<"i", "n", "f", "i", "n", "i", "t", "y">>
             THEN [exc |-> "none", v |-> JInf(sign)]
        ELSE IF rest = {} /\ Cardinality(dots) <= 1 /\ Len(whole) + Len(frac) >= 1
             THEN [exc |-> "none",
                   v |-> JFloat(sign * (DigitsToNat(whole) * Scale + FracToMilli(frac)))]
        ELSE [exc |-> "ValueError", v |-> JNull]

(* float(x) for a JSON value x: the float, or the exception it raises *)
PyFloat(x) ==
    CASE x.t \in {"float", "nan", "inf"} -> [exc |-> "none", v |-> x]
      [] x.t \in {"int", "bool"} -> [exc |-> "none", v |-> JFloat(x.n * Scale)]
      [] x.t = "bigint" -> [exc |-> "OverflowError", v |-> JNull]
      [] x.t = "str" -> ParseFloat(x.s)
      [] OTHER -> [exc |-> "TypeError", v |-> JNull]

(* comparisons of a float with the literals 0 and 1; every comparison     *)
(* with NaN is false                                                       *)
LeZero_Strict(f) == (f.t = "float" /\ f.n < 0) \/ (f.t = "inf" /\ f.n < 0)

LeZero(f) == (f.t = "float" /\ f.n <= 0) \/ (f.t = "inf" /\ f.n < 0)

LtZero(f) == (f.t = "float" /\ f.n < 0) \/ (f.t = "inf" /\ f.n < 0)

GtOne(f) == (f.t = "float" /\ f.n > Scale) \/ (f.t = "inf" /\ f.n > 0)

(* the except clause of the per-record try: ValueError and TypeError are   *)
(* caught and the record skipped, any other exception leaves the loop      *)
Caught(exc) == exc \in {"ValueError", "TypeError"}

-----------------------------------------------------------------------------
(* for x in v: the elements the loop visits, or the TypeError of a value   *)
(* that is not iterable.  A dict yields its keys and a str its characters, *)
(* each a str (a key is kept as one element, its spelling is never read).  *)

KeysOf(d) ==
    LET n == Cardinality(DOMAIN d)
        order == CHOOSE q \in [1..n -> DOMAIN d] : \A k \in DOMAIN d : \E j \in 1..n : q[j] = k
    IN [j \in 1..n |-> JStr(<<order[j]>>)]

Iterate(v) ==
    CASE v.t = "list" -> [exc |-> "none", items |-> v.a]
      [] v.t = "dict" -> [exc |-> "none", items |-> KeysOf(v.d)]
      [] v.t = "str" -> [exc |-> "none", items |-> [k \in 1..Len(v.s) |-> JStr(<<v.s[k]>>)]]
      [] OTHER -> [exc |-> "TypeError", items |-> <<>>]

(* the element at position k of a list is replaced by its mutated self;   *)
(* the elements of any other iterable are temporaries                      *)
Mutated(v, k, x) == IF v.t = "list" THEN JList([v.a EXCEPT ![k] = x]) ELSE v

-----------------------------------------------------------------------------
(* list.append(x) *)
ListAppend_Front(list, x) == <<x>> \o list

ListAppend(list, x) == Append(list, x)

(* parse_portfolio_image: one pass of the validation loop over one asset  *)

required_asset_fields_NameOnly == {"name"}

required_asset_fields == {"name", "isStock"}

(* asset['balance'] = balance *)
StoreBalance_Skipped(d, balance) == d

StoreBalance(d, balance) == Put(d, "balance", balance)

(* the stock branch, on the items of the asset dict *)
ValidateStock(d0) ==
    LET d1 == Put(d0, "ticker", Get(d0, "ticker", JStr(<<>>)))
        d2 == Put(d1, "shares", Get(d1, "shares", JInt(0)))
        d3 == Put(d2, "purchasePrice", Get(d2, "purchasePrice", JInt(0)))
        d4 == Put(d3, "balance", JInt(0))
        d5 == Put(d4, "apy", JInt(0))
        shares == PyFloat(d5["shares"])
        purchase_price == PyFloat(d5["purchasePrice"])
    IN  IF shares.exc # "none"
        THEN [out |-> IF Caught(shares.exc) THEN "continue" ELSE "raise",
              exc |-> shares.exc, d |-> d5]
        ELSE IF purchase_price.exc # "none"
        THEN [out |-> IF Caught(purchase_price.exc) THEN "continue" ELSE "raise",
              exc |-> purchase_price.exc, d |-> d5]
        ELSE IF LeZero(shares.v) \/ LeZero(purchase_price.v)
        THEN [out |-> "continue", exc |-> "none", d |-> d5]
        ELSE [out |-> "append", exc |-> "none",
              d |-> Put(Put(d5, "shares", shares.v), "purchasePrice", purchase_price.v)]

(* the cash branch, on the items of the asset dict *)
ValidateCash(d0) ==
    LET d1 == Put(d0, "ticker", JStr(<<>>))
        d2 == Put(d1, "shares", JInt(0))
        d3 == Put(d2, "purchasePrice", JInt(0))
        d4 == Put(d3, "balance", Get(d3, "balance", JInt(0)))
        d5 == Put(d4, "apy", Get(d4, "apy", JInt(0)))
        balance == PyFloat(d5["balance"])
        d6 == StoreBalance(d5, balance.v)
        apy == PyFloat(d6["apy"])
    IN  IF balance.exc # "none"
        THEN [out |-> IF Caught(balance.exc) THEN "continue" ELSE "raise",
              exc |-> balance.exc, d |-> d5]
        ELSE IF LeZero(balance.v)
        THEN [out |-> "continue", exc |-> "none", d |-> d5]
        ELSE IF apy.exc # "none"
        THEN [out |-> IF Caught(apy.exc) THEN "continue" ELSE "raise",
              exc |-> apy.exc, d |-> d6]
        ELSE IF LtZero(apy.v) \/ GtOne(apy.v)
        THEN [out |-> "append", exc |-> "none", d |-> Put(d6, "apy", JInt(0))]
        ELSE [out |-> "append", exc |-> "none", d |-> Put(d6, "apy", apy.v)]

(* the body of the for loop on one element: what happens to the element    *)
(* ("continue", "append" or "raise") and the element as the body left it   *)
Validated(r) == [out |-> r.out, exc |-> r.exc, asset |-> JDict(r.d)]

ValidateAsset(asset) ==
    IF asset.t # "dict"
    THEN [out |-> "continue", exc |-> "none", asset |-> asset]
    ELSE IF \E f \in required_asset_fields : ~Has(asset.d, f)
    THEN [out |-> "continue", exc |-> "none", asset |-> asset]
    ELSE Validated(IF Truthy(Get(asset.d, "isStock", JNull))
                   THEN ValidateStock(asset.d)
                   ELSE ValidateCash(asset.d))

-----------------------------------------------------------------------------
(* parse_trade_image_with_gemini: one pass of the loop over one trade     *)

required_fields == {"date", "ticker", "realized_pnl", "percent_diff"}

(* trade['realized_pnl'] = realized_pnl; trade['percent_diff'] = percent_diff *)
StoreTradeNumbers_Percent(d, realized_pnl, percent_diff) ==
    Put(Put(d, "realized_pnl", realized_pnl), "percent_diff",
        IF percent_diff.t = "float" THEN JFloat(percent_diff.n * 100) ELSE percent_diff)

StoreTradeNumbers(d, realized_pnl, percent_diff) ==
    Put(Put(d, "realized_pnl", realized_pnl), "percent_diff", percent_diff)

(* str.upper(), or the AttributeError of a value that has no upper()      *)
Upper(x) ==
    IF x.t = "str"
    THEN [exc |-> "none", v |-> JStr(UpperStr(x.s))]
    ELSE [exc |-> "AttributeError", v |-> JNull]

ValidateTrade(trade) ==
    IF trade.t # "dict"
    THEN [out |-> "continue", exc |-> "none", trade |-> trade]
    ELSE IF \E f \in required_fields : ~Has(trade.d, f)
    THEN [out |-> "continue", exc |-> "none", trade |-> trade]
    ELSE LET realized_pnl == PyFloat(trade.d["realized_pnl"])
             percent_diff == PyFloat(trade.d["percent_diff"])
             d1 == StoreTradeNumbers(trade.d, realized_pnl.v, percent_diff.v)
             ticker == Upper(d1["ticker"])
         IN  IF realized_pnl.exc # "none"
             THEN [out |-> IF Caught(realized_pnl.exc) THEN "continue" ELSE "raise",
                   exc |-> realized_pnl.exc, trade |-> trade]
             ELSE IF percent_diff.exc # "none"
             THEN [out |-> IF Caught(percent_diff.exc) THEN "continue" ELSE "raise",
                   exc |-> percent_diff.exc, trade |-> trade]
             ELSE IF ticker.exc # "none"
             THEN [out |-> "raise", exc |-> ticker.exc, trade |-> JDict(d1)]
             ELSE [out |-> "append", exc |-> "none",
                   trade |-> JDict(Put(d1, "ticker", ticker.v))]

-----------------------------------------------------------------------------
(* The two functions as operators: the value returned for the value v     *)
(* that json.loads built.  An exception that leaves the loop reaches the   *)
(* outer handler, which returns the empty list.                            *)

RECURSIVE AssetsLoop(_, _, _)
RECURSIVE AssetsAfter(_, _, _, _)

(* the loop after the body left the k-th element as r says *)
AssetsAfter(items, k, validated, r) ==
    CASE r.out = "raise" -> <<>>
      [] r.out = "append" -> AssetsLoop(items, k + 1, ListAppend(validated, r.asset))
      [] OTHER -> AssetsLoop(items, k + 1, validated)

AssetsLoop(items, k, validated) ==
    IF k > Len(items) THEN validated
    ELSE AssetsAfter(items, k, validated, ValidateAsset(items[k]))

parse_portfolio_image(v) ==
    IF Iterate(v).exc # "none" THEN <<>> ELSE AssetsLoop(Iterate(v).items, 1, <<>>)

RECURSIVE TradesLoop(_, _, _)
RECURSIVE TradesAfter(_, _, _, _)

TradesAfter(items, k, validated, r) ==
    CASE r.out = "raise" -> <<>>
      [] r.out = "append" -> TradesLoop(items, k + 1, ListAppend(validated, r.trade))
      [] OTHER -> TradesLoop(items, k + 1, validated)

TradesLoop(items, k, validated) ==
    IF k > Len(items) THEN validated
    ELSE TradesAfter(items, k, validated, ValidateTrade(items[k]))

parse_trade_image_with_gemini(v) ==
    IF Iterate(v).exc # "none" THEN <<>> ELSE TradesLoop(Iterate(v).items, 1, <<>>)

-----------------------------------------------------------------------------
(* The responses of the vision model that the model explores.  A field of  *)
(* a record is one of the JSON values below or Absent (the key is not in   *)
(* the dict).                                                              *)

MaxLen == 2

Absent == [t |-> "absent", n |-> 0, s |-> <<>>, d |-> NoDict, a |-> <<>>]

(* the dict whose keys are the fields of r that are not Absent *)
Obj(r) == JDict([k \in {f \in DOMAIN r : r[f] # Absent} |-> r[k]])

S_10_5 == JStr(<<"1", "0", ".", "5">>)

S_150_25 == JStr(<<"1", "5", "0", ".", "2", "5">>)

S_5000_00 == JStr(<<"5", "0", "0", "0", ".", "0", "0">>)

S_0_045 == JStr(<<"0", ".", "0", "4", "5">>)

S_dollar == JStr(<<"$", "5">>)

S_nan == JStr(<<"N", "a", "N">>)

S_padded == JStr(<<" ", "+", "2", ".", " ">>)

SharesVals == {Absent, JNull, JInt(-1), JInt(0), JInt(2), S_dollar, S_nan, JBigInt}

PriceVals == {Absent, JInt(0), S_dollar, JBigInt, JBool(TRUE)}

BalanceVals == {Absent, JInt(-1), S_10_5, S_dollar, S_nan, JBigInt}

ApyVals == {Absent, JNull, JInt(-1), JInt(2), S_dollar, S_nan, JBigInt, JFloat(45),
            JFloat(1500), S_padded}

IsStockVals == {Absent, JNull, JInt(1), JStr(<<"n", "o">>)}

Holding(name, isStock, ticker, shares, purchasePrice, balance, apy) ==
    Obj([name |-> name, isStock |-> isStock, ticker |-> ticker, shares |-> shares,
         purchasePrice |-> purchasePrice, balance |-> balance, apy |-> apy])

N_A == JStr(<<"A">>)

T_x == JStr(<<"x">>)

ExampleCash ==
    Obj([name |-> JStr(<<"C", "a", "s", "h">>), isStock |-> JBool(FALSE),
         balance |-> S_5000_00, apy |-> S_0_045])

ExampleBadCo(priceKey) ==
    Obj([k \in {"name", "isStock", "ticker", "shares", priceKey} |->
         CASE k = "name" -> JStr(<<"B", "a", "d", "C", "o">>)
           [] k = "isStock" -> JBool(TRUE)
           [] k = "ticker" -> JStr(<<"X">>)
           [] k = "shares" -> JInt(-1)
           [] OTHER -> JInt(10)])

ExampleApple(priceKey) ==
    Obj([k \in {"name", "isStock", "ticker", "shares", priceKey} |->
         CASE k = "name" -> JStr(<<"A", "p", "p", "l", "e">>)
           [] k = "isStock" -> JBool(TRUE)
           [] k = "ticker" -> JStr(<<"A", "A", "P", "L">>)
           [] k = "shares" -> S_10_5
           [] OTHER -> S_150_25])

(* the worked example of the specification, with the price under the key   *)
(* the specification writes and under the key the code reads               *)
ExampleInput(priceKey) == <<ExampleCash, ExampleBadCo(priceKey), ExampleApple(priceKey)>>

HoldingElems ==
    {Holding(N_A, JBool(TRUE), T_x, sh, JInt(2), Absent, Absent) : sh \in SharesVals}
    \cup {Holding(N_A, JBool(TRUE), Absent, S_10_5, pr, S_dollar, JBigInt) : pr \in PriceVals}
    \cup {Holding(N_A, JBool(FALSE), Absent, Absent, Absent, b, Absent) : b \in BalanceVals}
    \cup {Holding(N_A, JBool(FALSE), T_x, S_dollar, JBigInt, JInt(2), y) : y \in ApyVals}
    \cup {Holding(N_A, st, T_x, JInt(2), JInt(2), JInt(2), Absent) : st \in IsStockVals}
    \cup {Holding(Absent, JBool(TRUE), T_x, JInt(2), JInt(2), Absent, Absent),
          Holding(JNull, JBool(FALSE), Absent, Absent, Absent, JInt(2), JFloat(45))}
    \cup {JNull, JStr(<<"x">>)}
    \cup {ExampleCash, ExampleBadCo("purchasePrice"), ExampleApple("purchasePrice"),
          ExampleApple("currentPrice")}

Trade(date, ticker, realized_pnl, percent_diff) ==
    Obj([date |-> date, ticker |-> ticker, realized_pnl |-> realized_pnl,
         percent_diff |-> percent_diff])

D_1 == JStr(<<"2", "5", "-", "0", "8">>)

T_open == JStr(<<"o", "p", "e", "n">>)

T_option == JStr(<<"Q", " ", "$", "5", " ", "P", "u", "t">>)

PnlVals == {Absent, JNull, JInt(-3), JBool(TRUE), JStr(<<"5", ".", "1", "3">>),
            S_dollar, JBigInt}

TradeElems ==
    {Trade(D_1, T_open, p, JFloat(3300)) : p \in PnlVals}
    \cup {Trade(D_1, T_option, JInt(-3), q) : q \in PnlVals}
    \cup {Trade(dt, T_open, JInt(2), JInt(2)) : dt \in {Absent, JNull, JStr(<<"A", "u", "g">>)}}
    \cup {Trade(D_1, tk, JInt(2), JInt(2)) : tk \in {Absent, JNull, JInt(5), JStr(<<"O", "P", "E", "N">>)}}
    \cup {JNull, JStr(<<"x">>)}

RECURSIVE SeqsUpTo(_, _)
SeqsUpTo(S, n) ==
    IF n = 0 THEN {<<>>}
    ELSE LET shorter == SeqsUpTo(S, n - 1)
         IN shorter \cup {Append(q, x) : q \in {r \in shorter : Len(r) = n - 1}, x \in S}

(* json.loads of the response: an array of at most MaxLen elements, the    *)
(* worked example, or a JSON value that is not an array                    *)
HoldingResponses ==
    {JList(q) : q \in SeqsUpTo(HoldingElems, MaxLen)}
    \cup {JList(ExampleInput("currentPrice")), JList(ExampleInput("purchasePrice"))}
    \cup {ExampleCash, JInt(5), JNull, JStr(<<"a", "b">>)}

TradeResponses ==
    {JList(q) : q \in SeqsUpTo(TradeElems, MaxLen)}
    \cup {Trade(D_1, T_open, JInt(2), JInt(2)), JInt(5), JNull, JStr(<<"a", "b">>)}

-----------------------------------------------------------------------------
(* The two functions, from the value json.loads returned to the return    *)

(* no endpoint is involved when a validation loop is followed on its own *)
(* the store client holds no session *)
NoSession == "none"

(* no Portfolio object was made *)
NoPortfolio == <<>>

SessionUnused == session = NoSession

PortfolioUnused == portfolio = NoPortfolio

ApiUnused ==
    /\ SessionUnused
    /\ PortfolioUnused
    /\ request = [endpoint |-> "none"]
    /\ response = [status_code |-> 0]
    /\ gemini = <<>>
    /\ yf = <<>>
    /\ supabase = FALSE
    /\ db = <<>>
    /\ before = <<>>
    /\ store_calls = <<>>
    /\ served = 0

Init ==
    /\ call \in {"parse_portfolio_image", "parse_trade_image_with_gemini"}
    /\ parsed \in IF call = "parse_portfolio_image" THEN HoldingResponses ELSE TradeResponses
    /\ assets = IF call = "parse_portfolio_image" THEN parsed ELSE JNull
    /\ trades = IF call = "parse_trade_image_with_gemini" THEN parsed ELSE JNull
    /\ validated_assets = <<>>
    /\ validated_trades = <<>>
    /\ i = 0
    /\ pc = "loop"
    /\ result = <<>>
    /\ raised = "none"
    /\ ApiUnused

(* except Exception: return [] *)
OuterExcept(exc) ==
    /\ pc' = "done"
    /\ result' = <<>>
    /\ raised' = exc
    /\ UNCHANGED <<api_vars, call, parsed, i>>

InAssetsLoop ==
    /\ call = "parse_portfolio_image"
    /\ pc = "loop"
    /\ Iterate(assets).exc = "none"
    /\ i < Len(Iterate(assets).items)

asset == Iterate(assets).items[i + 1]

(* for asset in assets, when assets is not iterable *)
AssetsNotIterable ==
    /\ call = "parse_portfolio_image"
    /\ pc = "loop"
    /\ Iterate(assets).exc # "none"
    /\ OuterExcept(Iterate(assets).exc)
    /\ UNCHANGED <<assets, validated_assets, trades, validated_trades>>

(* if not isinstance(asset, dict): continue *)
AssetNotDict ==
    /\ InAssetsLoop
    /\ asset.t # "dict"
    /\ i' = i + 1
    /\ UNCHANGED <<api_vars, call, parsed, assets, validated_assets, trades, validated_trades,
                   pc, result, raised>>

(* if 'name' not in asset or 'isStock' not in asset: continue *)
AssetMissingField ==
    /\ InAssetsLoop
    /\ asset.t = "dict"
    /\ \E f \in required_asset_fields : ~Has(asset.d, f)
    /\ i' = i + 1
    /\ UNCHANGED <<api_vars, call, parsed, assets, validated_assets, trades, validated_trades,
                   pc, result, raised>>

(* the rest of the loop body, for the outcome r of the branch taken *)
AssetOutcome(r) ==
    /\ assets' = Mutated(assets, i + 1, r.asset)
    /\ UNCHANGED <<trades, validated_trades>>
    /\ \/ /\ r.out = "append"
          /\ validated_assets' = ListAppend(validated_assets, r.asset)
          /\ i' = i + 1
          /\ UNCHANGED <<api_vars, call, parsed, pc, result, raised>>
       \/ /\ r.out = "continue"
          /\ i' = i + 1
          /\ UNCHANGED <<api_vars, call, parsed, validated_assets, pc, result, raised>>
       \/ /\ r.out = "raise"
          /\ OuterExcept(r.exc)
          /\ UNCHANGED validated_assets

(* if asset.get('isStock'): ... *)
AssetStock ==
    /\ InAssetsLoop
    /\ asset.t = "dict"
    /\ \A f \in required_asset_fields : Has(asset.d, f)
    /\ Truthy(Get(asset.d, "isStock", JNull))
    /\ AssetOutcome(ValidateAsset(asset))

(* else: ... *)
AssetCash ==
    /\ InAssetsLoop
    /\ asset.t = "dict"
    /\ \A f \in required_asset_fields : Has(asset.d, f)
    /\ ~Truthy(Get(asset.d, "isStock", JNull))
    /\ AssetOutcome(ValidateAsset(asset))

(* return validated_assets *)
ReturnAssets ==
    /\ call = "parse_portfolio_image"
    /\ pc = "loop"
    /\ Iterate(assets).exc = "none"
    /\ i = Len(Iterate(assets).items)
    /\ pc' = "done"
    /\ result' = validated_assets
    /\ UNCHANGED <<api_vars, call, parsed, assets, validated_assets, trades, validated_trades,
                   i, raised>>

InTradesLoop ==
    /\ call = "parse_trade_image_with_gemini"
    /\ pc = "loop"
    /\ Iterate(trades).exc = "none"
    /\ i < Len(Iterate(trades).items)

trade == Iterate(trades).items[i + 1]

(* for trade in trades, when trades is not iterable *)
TradesNotIterable ==
    /\ call = "parse_trade_image_with_gemini"
    /\ pc = "loop"
    /\ Iterate(trades).exc # "none"
    /\ OuterExcept(Iterate(trades).exc)
    /\ UNCHANGED <<assets, validated_assets, trades, validated_trades>>

(* if not isinstance(trade, dict): continue; if not all(field in trade): continue *)
TradeSkipped ==
    /\ InTradesLoop
    /\ trade.t # "dict" \/ \E f \in required_fields : ~Has(trade.d, f)
    /\ i' = i + 1
    /\ UNCHANGED <<api_vars, call, parsed, assets, validated_assets, trades, validated_trades,
                   pc, result, raised>>

(* the float() conversions, upper() and append *)
TradeChecked ==
    /\ InTradesLoop
    /\ trade.t = "dict"
    /\ \A f \in required_fields : Has(trade.d, f)
    /\ LET r == ValidateTrade(trade)
       IN /\ trades' = Mutated(trades, i + 1, r.trade)
          /\ UNCHANGED <<assets, validated_assets>>
          /\ \/ /\ r.out = "append"
                /\ validated_trades' = ListAppend(validated_trades, r.trade)
                /\ i' = i + 1
                /\ UNCHANGED <<api_vars, call, parsed, pc, result, raised>>
             \/ /\ r.out = "continue"
                /\ i' = i + 1
                /\ UNCHANGED <<api_vars, call, parsed, validated_trades, pc, result, raised>>
             \/ /\ r.out = "raise"
                /\ OuterExcept(r.exc)
                /\ UNCHANGED validated_trades

(* return validated_trades *)
ReturnTrades ==
    /\ call = "parse_trade_image_with_gemini"
    /\ pc = "loop"
    /\ Iterate(trades).exc = "none"
    /\ i = Len(Iterate(trades).items)
    /\ pc' = "done"
    /\ result' = validated_trades
    /\ UNCHANGED <<api_vars, call, parsed, assets, validated_assets, trades, validated_trades,
                   i, raised>>

Next ==
    \/ AssetsNotIterable
    \/ AssetNotDict
    \/ AssetMissingField
    \/ AssetStock
    \/ AssetCash
    \/ ReturnAssets
    \/ TradesNotIterable
    \/ TradeSkipped
    \/ TradeChecked
    \/ ReturnTrades

Spec == Init /\ [][Next]_vars

-----------------------------------------------------------------------------
(* Vocabulary of the properties *)

HoldingsDone == call = "parse_portfolio_image" /\ pc = "done"

TradesDone == call = "parse_trade_image_with_gemini" /\ pc = "done"

(* the input array, when the response was an array *)
IsArray == parsed.t = "list"

input == parsed.a

(* numeric equality with 0, as Python compares 0, 0.0 and a float *)
IsZero(v) == v.t \in {"int", "float"} /\ v.n = 0

(* a number greater than 0 *)
GtZero(f) == (f.t \in {"float", "int"} /\ f.n > 0) \/ (f.t = "inf" /\ f.n > 0)

(* a number in [0, 1] *)
InUnit(v) == (v.t = "int" /\ v.n \in {0, 1}) \/ (v.t = "float" /\ 0 <= v.n /\ v.n <= Scale)

(* Python's == on JSON values: numbers are compared by value, so that 0,  *)
(* 0.0 and False are equal; a dict by its items                            *)
CanonScalar(v) == IF v.t \in {"int", "bool"} THEN JFloat(v.n * Scale) ELSE v

Canon(v) ==
    IF v.t = "dict" THEN JDict([k \in DOMAIN v.d |-> CanonScalar(v.d[k])]) ELSE CanonScalar(v)

SameRecords(q, r) ==
    /\ Len(q) = Len(r)
    /\ \A k \in 1..Len(q) : Canon(q[k]) = Canon(r[k])

(* the field coerces to a float *)
Coerces(d, key) == Has(d, key) /\ PyFloat(d[key]).exc = "none"

(* the field coerces to a number greater than 0 *)
CoercesPositive(d, key) == Coerces(d, key) /\ GtZero(PyFloat(d[key]).v)

normalized_asset_keys == {"ticker", "shares", "purchasePrice", "balance", "apy"}

IsMapping(x) == x.t = "dict"

HasRequired(x) == IsMapping(x) /\ Has(x.d, "name") /\ Has(x.d, "isStock")

(* a float that is <= 0 *)
NonPositive(f) == (f.t = "float" /\ f.n <= 0) \/ (f.t = "inf" /\ f.n < 0)

StrictlyIncreasing(f) == \A a, b \in DOMAIN f : a < b => f[a] < f[b]

RemoveAt(q, k) == SubSeq(q, 1, k - 1) \o SubSeq(q, k + 1, Len(q))

(* the output record out is the input record x after validation: every    *)
(* key the validator does not normalize is kept with its value            *)
AssetFrom(out, x) ==
    /\ IsMapping(x) /\ IsMapping(out)
    /\ \A key \in DOMAIN x.d \ normalized_asset_keys : Has(out.d, key) /\ out.d[key] = x.d[key]

normalized_trade_keys == {"ticker", "realized_pnl", "percent_diff"}

TradeFrom(out, x) ==
    /\ IsMapping(x) /\ IsMapping(out)
    /\ \A key \in DOMAIN x.d \ normalized_trade_keys : Has(out.d, key) /\ out.d[key] = x.d[key]

(* the two validators agree with the functions as operators *)
LoopIsFunction ==
    /\ HoldingsDone => result = parse_portfolio_image(parsed)
    /\ TradesDone => result = parse_trade_image_with_gemini(parsed)

-----------------------------------------------------------------------------
(* Properties *)

(* the record coming out of a valid stock record x *)
StockOutOf(out, x) ==
    /\ out.d["name"] = x.d["name"]
    /\ out.d["isStock"] = x.d["isStock"]
    /\ out.d["shares"] = PyFloat(x.d["shares"]).v
    /\ out.d["purchasePrice"] = PyFloat(x.d["purchasePrice"]).v
    /\ IsZero(out.d["balance"])
    /\ IsZero(out.d["apy"])

(* the record coming out of a valid cash record x, whatever its apy *)
CashOutOf(out, x) ==
    /\ out.d["name"] = x.d["name"]
    /\ out.d["isStock"] = x.d["isStock"]
    /\ out.d["ticker"] = JStr(<<>>)
    /\ IsZero(out.d["shares"])
    /\ IsZero(out.d["purchasePrice"])
    /\ out.d["balance"] = PyFloat(x.d["balance"]).v

ValidStock(x) ==
    /\ HasRequired(x)
    /\ x.d["isStock"] = JBool(TRUE)
    /\ CoercesPositive(x.d, "shares")
    /\ CoercesPositive(x.d, "purchasePrice")

ValidBalanceCash(x) ==
    /\ HasRequired(x)
    /\ x.d["isStock"] = JBool(FALSE)
    /\ CoercesPositive(x.d, "balance")

(* C1: every input record that is a mapping with name and isStock, with    *)
(* isStock = true and shares and purchasePrice coercible to numbers > 0,   *)
(* is in the output of parse_portfolio_image with balance = 0 and apy = 0, *)
(* whatever balance and apy it carried.                                    *)
C1_ValidStockIsInOutput ==
    HoldingsDone /\ IsArray =>
        \A k \in 1..Len(input) :
            ValidStock(input[k]) => \E j \in 1..Len(result) : StockOutOf(result[j], input[k])

(* C2: every input record that is a mapping with name and isStock, with    *)
(* isStock = false and balance coercible to a number > 0, is in the output *)
(* with ticker = "", shares = 0 and purchasePrice = 0, for every value of  *)
(* its apy field (present, absent, null, non-numeric, out of range).       *)
C2_ValidBalanceCashIsInOutput ==
    HoldingsDone /\ IsArray =>
        \A k \in 1..Len(input) :
            ValidBalanceCash(input[k]) => \E j \in 1..Len(result) : CashOutOf(result[j], input[k])

MissingRequired(x) == IsMapping(x) /\ ~HasRequired(x)

(* C3: a record that lacks the key name or the key isStock is not in the   *)
(* output, and the output is the output of the same array without that     *)
(* record: each such record makes the output one shorter than the input    *)
(* and changes nothing else.                                               *)
C3_MissingRequiredIsExcluded ==
    HoldingsDone /\ IsArray =>
        /\ \A j \in 1..Len(result) : HasRequired(result[j])
        /\ Len(result) <= Len(input) - Cardinality({k \in 1..Len(input) : MissingRequired(input[k])})
        /\ \A k \in 1..Len(input) :
               MissingRequired(input[k]) =>
                   result = parse_portfolio_image(JList(RemoveAt(input, k)))

(* a record without name or isStock was skipped next to a record that      *)
(* survived                                                                *)
C3_Witness ==
    /\ HoldingsDone /\ IsArray
    /\ \E k \in 1..Len(input) : MissingRequired(input[k])
    /\ Len(result) >= 1

(* a JSON number outside [0, 1] *)
NumberOutsideUnit(v) ==
    \/ v.t = "int" /\ (v.n < 0 \/ v.n > 1)
    \/ v.t = "float" /\ (v.n < 0 \/ v.n > Scale)
    \/ v.t \in {"bigint", "inf"}

(* C4: a cash record with balance coercible to a number > 0 and a numeric  *)
(* apy outside [0, 1] is kept in the output with apy = 0 and its balance.  *)
C4_OutOfRangeApyIsKept ==
    HoldingsDone /\ IsArray =>
        \A k \in 1..Len(input) :
            (/\ ValidBalanceCash(input[k])
             /\ Has(input[k].d, "apy")
             /\ NumberOutsideUnit(input[k].d["apy"]))
            => \E j \in 1..Len(result) :
                   CashOutOf(result[j], input[k]) /\ IsZero(result[j].d["apy"])

(* shares or the price is absent, does not coerce, or coerces to <= 0 *)
BadNumber(d, key) ==
    \/ ~Has(d, key)
    \/ PyFloat(d[key]).exc \in {"ValueError", "TypeError"}
    \/ PyFloat(d[key]).exc = "none" /\ NonPositive(PyFloat(d[key]).v)

BadStock(x) ==
    /\ HasRequired(x)
    /\ Truthy(x.d["isStock"])
    /\ BadNumber(x.d, "shares") \/ BadNumber(x.d, "purchasePrice")

(* C5: a stock record (isStock true, or any value Python takes as true)    *)
(* whose shares or purchasePrice is absent, non-numeric (float() raises    *)
(* ValueError or TypeError) or coerces to a value <= 0 is in the output in *)
(* no form: the output records are, in order, records of the input         *)
(* positions that hold no such record.                                     *)
C5_BadStockIsDropped ==
    HoldingsDone /\ IsArray =>
        \E f \in [1..Len(result) -> {k \in 1..Len(input) : ~BadStock(input[k])}] :
            /\ StrictlyIncreasing(f)
            /\ \A j \in 1..Len(result) : AssetFrom(result[j], input[f[j]])

(* a stock record with a bad number was dropped next to a record that      *)
(* survived                                                                *)
C5_Witness ==
    /\ HoldingsDone /\ IsArray
    /\ \E k \in 1..Len(input) : BadStock(input[k])
    /\ Len(result) >= 1

(* C6: validating the output of a validator again returns the same         *)
(* sequence: same length, same order, and in every record the same keys    *)
(* with equal values (equal as Python compares them: the 0 that replaces   *)
(* an out-of-range apy comes back as 0.0).                                 *)
C6_Idempotent ==
    /\ HoldingsDone => SameRecords(parse_portfolio_image(JList(result)), result)
    /\ TradesDone => SameRecords(parse_trade_image_with_gemini(JList(result)), result)

(* a validator returned two records and changed the input on the way *)
C6_Witness ==
    /\ pc = "done" /\ IsArray
    /\ Len(result) >= 2
    /\ result # input

(* C7: the output of either validator is an order-preserving subsequence   *)
(* of the input: its records come from distinct, increasing input          *)
(* positions, and it is never longer than the input.                       *)
C7_OrderPreservingSubsequence ==
    pc = "done" /\ IsArray =>
        /\ Len(result) <= Len(input)
        /\ \E f \in [1..Len(result) -> 1..Len(input)] :
               /\ StrictlyIncreasing(f)
               /\ \A j \in 1..Len(result) :
                      IF call = "parse_portfolio_image"
                      THEN AssetFrom(result[j], input[f[j]])
                      ELSE TradeFrom(result[j], input[f[j]])

(* two records that differ in a key the validator keeps were both returned *)
C7_Witness ==
    /\ pc = "done" /\ IsArray
    /\ Len(result) >= 2
    /\ ~AssetFrom(result[1], input[2])
    /\ ~TradeFrom(result[1], input[2])

all_asset_keys == {"name", "isStock"} \cup normalized_asset_keys

(* C8: every output record has name, isStock, ticker, shares,              *)
(* purchasePrice, balance and apy, and one side populated: a stock has     *)
(* shares > 0, purchasePrice > 0, balance = 0, apy = 0; a cash record has  *)
(* ticker = "", shares = 0, purchasePrice = 0, balance > 0, 0 <= apy <= 1. *)
C8_ExactlyOneSidePopulated ==
    HoldingsDone =>
        \A j \in 1..Len(result) :
            LET d == result[j].d
            IN /\ all_asset_keys \subseteq DOMAIN d
               /\ d["isStock"] = JBool(TRUE) =>
                      /\ GtZero(d["shares"]) /\ GtZero(d["purchasePrice"])
                      /\ IsZero(d["balance"]) /\ IsZero(d["apy"])
               /\ d["isStock"] = JBool(FALSE) =>
                      /\ d["ticker"] = JStr(<<>>)
                      /\ IsZero(d["shares"]) /\ IsZero(d["purchasePrice"])
                      /\ GtZero(d["balance"]) /\ InUnit(d["apy"])

(* C9: isStock of every output record is a boolean, also when the input    *)
(* record's isStock was null, a number or a string.                        *)
C9_IsStockIsBoolean ==
    HoldingsDone => \A j \in 1..Len(result) : result[j].d["isStock"].t = "bool"

ExpectedCash ==
    JDict([name |-> JStr(<<"C", "a", "s", "h">>), isStock |-> JBool(FALSE),
           ticker |-> JStr(<<>>), shares |-> JInt(0), purchasePrice |-> JInt(0),
           balance |-> JFloat(5000000), apy |-> JFloat(45)])

ExpectedApple ==
    JDict([name |-> JStr(<<"A", "p", "p", "l", "e">>), isStock |-> JBool(TRUE),
           ticker |-> JStr(<<"A", "A", "P", "L">>), shares |-> JFloat(10500),
           purchasePrice |-> JFloat(150250), balance |-> JInt(0), apy |-> JInt(0)])

(* C10 as the specification states it: the three-record example, with the  *)
(* prices under currentPrice, returns two records, the normalized Cash     *)
(* record and then the Apple record with shares 10.5, price 150.25,        *)
(* balance 0 and apy 0.                                                    *)
C10_ExampleAsWritten ==
    HoldingsDone /\ parsed = JList(ExampleInput("currentPrice")) =>
        /\ Len(result) = 2
        /\ CashOutOf(result[1], ExampleCash)
        /\ result[1].d["apy"] = JFloat(45)
        /\ result[2].d["name"] = ExpectedApple.d["name"]
        /\ result[2].d["shares"] = JFloat(10500)
        /\ result[2].d["currentPrice"] = JFloat(150250)
        /\ IsZero(result[2].d["balance"]) /\ IsZero(result[2].d["apy"])

(* C10, amended: with the prices under purchasePrice, the key the code     *)
(* reads, the example returns the normalized Cash record and then the      *)
(* normalized Apple record; with the prices under currentPrice the Apple   *)
(* record is dropped as well and only the Cash record is returned.         *)
C10_ExamplePurchasePrice ==
    /\ HoldingsDone /\ parsed = JList(ExampleInput("purchasePrice")) =>
           result = <<ExpectedCash, ExpectedApple>>
    /\ HoldingsDone /\ parsed = JList(ExampleInput("currentPrice")) =>
           /\ Len(result) = 1
           /\ CashOutOf(result[1], ExampleCash)
           /\ result[1].d["apy"] = JFloat(45)

(* the example with purchasePrice was validated *)
C10_Witness ==
    /\ HoldingsDone
    /\ parsed = JList(ExampleInput("purchasePrice"))
    /\ Len(result) = 2

-----------------------------------------------------------------------------
(* Per-record isolation *)

(* the element x survives validation when it is the only element of the array *)
SurvivesAlone(x) ==
    IF call = "parse_portfolio_image"
    THEN parse_portfolio_image(JList(<<x>>)) # <<>>
    ELSE parse_trade_image_with_gemini(JList(<<x>>)) # <<>>

(* the record validation makes of x when x is the only element of the array *)
AloneRecord(x) ==
    IF call = "parse_portfolio_image"
    THEN parse_portfolio_image(JList(<<x>>))[1]
    ELSE parse_trade_image_with_gemini(JList(<<x>>))[1]

(* C11: in both validators a failure of one record is isolated: an element *)
(* that cannot be validated is dropped alone, so every element that        *)
(* survives validation as the only element of an array also survives, with *)
(* the same record, in any array that contains it, whatever its siblings.  *)
C11_RecordFailureIsIsolated ==
    pc = "done" /\ IsArray =>
        /\ \A k \in 1..Len(input) :
               SurvivesAlone(input[k]) =>
                   \E j \in 1..Len(result) : result[j] = AloneRecord(input[k])

-----------------------------------------------------------------------------
(* The endpoints: what a handler raises and what the caller receives *)

NoResponse == [status_code |-> 0]

(* HTTPException(status_code=..., detail=...), as the caller receives it *)
HTTPException(status_code, detail) == [status_code |-> status_code, detail |-> detail]

(* a handler that returned the dict {key: records} *)
Returned(key, records) == [status_code |-> 200, key |-> key, records |-> records]

Succeeded == response.status_code = 200

(* how the try block of a handler ends: it raises an HTTPException, raises *)
(* another exception, or returns                                           *)
RaiseHTTP(status_code, detail) ==
    [raised |-> TRUE, exc |-> HTTPException(status_code, detail), answer |-> NoResponse]

RaiseOther == [raised |-> TRUE, exc |-> NoResponse, answer |-> NoResponse]

Return(answer) == [raised |-> FALSE, exc |-> NoResponse, answer |-> answer]

(* try: ... except Exception: raise HTTPException(status_code=500, ...);   *)
(* HTTPException is an Exception, so one raised in the try is caught too   *)
ExceptException_PassHTTP(outcome, detail) ==
    IF ~outcome.raised THEN outcome.answer
    ELSE IF outcome.exc # NoResponse THEN outcome.exc
    ELSE HTTPException(500, detail)

ExceptException(outcome, detail) ==
    IF outcome.raised THEN HTTPException(500, detail) ELSE outcome.answer

(* try: ... except HTTPException: raise; except Exception: raise           *)
(* HTTPException(status_code=500, ...)                                     *)
ExceptHTTPExceptionRaise(outcome, detail) ==
    IF outcome.raised /\ outcome.exc # NoResponse THEN outcome.exc
    ELSE ExceptException(outcome, detail)

(* the Authorization header: None, or a prefix followed by a token *)
NoHeader == [prefix |-> "", token |-> ""]

Bearer(token) == [prefix |-> "Bearer ", token |-> token]

(* the identity provider: the user a token belongs to; get_user raises for *)
(* any other token                                                         *)
Users == {"A", "B"}

TokenOf(user) == IF user = "A" THEN "tokA" ELSE "tokB"

Headers ==
    {NoHeader, [prefix |-> "Token ", token |-> "tokA"], [prefix |-> "bearer ", token |-> "tokA"],
     Bearer("tokA"), Bearer("tokB"), Bearer("expired"), Bearer("")}

(* get_current_user: the user id, or the HTTPException it raises *)
get_current_user_ClientFirst(authorization) ==
    IF ~supabase
    THEN [exc |-> HTTPException(500, "Supabase not configured"), user_id |-> ""]
    ELSE IF authorization = NoHeader \/ authorization.prefix # "Bearer "
    THEN [exc |-> HTTPException(401, "Invalid authorization header"), user_id |-> ""]
    ELSE IF \E u \in Users : TokenOf(u) = authorization.token
    THEN [exc |-> NoResponse,
          user_id |-> CHOOSE u \in Users : TokenOf(u) = authorization.token]
    ELSE [exc |-> HTTPException(401, "Invalid token"), user_id |-> ""]

get_current_user(authorization) ==
    IF authorization = NoHeader \/ authorization.prefix # "Bearer "
    THEN [exc |-> HTTPException(401, "Invalid authorization header"), user_id |-> ""]
    ELSE IF ~supabase
    THEN [exc |-> HTTPException(500, "Supabase not configured"), user_id |-> ""]
    ELSE IF \E u \in Users : TokenOf(u) = authorization.token
    THEN [exc |-> NoResponse,
          user_id |-> CHOOSE u \in Users : TokenOf(u) = authorization.token]
    ELSE [exc |-> HTTPException(401, "Invalid token"), user_id |-> ""]

-----------------------------------------------------------------------------
(* Extraction from an image: from the request to the validated records *)

(* The text the extraction model answers is a sequence of pieces: a fence  *)
(* (three backquotes) followed by the word json, a bare fence, white       *)
(* space, a JSON document (with the value json.loads builds of it) or text *)
(* that is not JSON.                                                       *)
FenceJson == [c |-> "fence json", v |-> JNull]

Fence == [c |-> "fence", v |-> JNull]

Blank == [c |-> "blank", v |-> JNull]

Prose == [c |-> "prose", v |-> JNull]

Document(v) == [c |-> "document", v |-> v]

(* str.strip() *)
RECURSIVE StripText(_)
StripText(text) ==
    IF text # <<>> /\ Head(text) = Blank THEN StripText(Tail(text))
    ELSE IF text # <<>> /\ text[Len(text)] = Blank
    THEN StripText(SubSeq(text, 1, Len(text) - 1))
    ELSE text

(* if response_text.startswith(<fence>json): response_text = response_text[7:] *)
CutOpeningFence(text) ==
    IF text # <<>> /\ Head(text) = FenceJson THEN Tail(text) ELSE text

(* if response_text.endswith(<fence>): response_text = response_text[:-3] *)
CutClosingFence(text) ==
    IF text # <<>> /\ text[Len(text)] = Fence THEN SubSeq(text, 1, Len(text) - 1) ELSE text

(* json.loads: one document, white space around it allowed *)
json_loads(text) ==
    LET core == StripText(text)
    IN IF Len(core) = 1 /\ core[1].c = "document"
       THEN [exc |-> "none", v |-> core[1].v]
       ELSE [exc |-> "JSONDecodeError", v |-> JNull]

(* the inner try of the two functions, for the reply of the model: the     *)
(* value returned, or the exception that leaves the inner try              *)
ParseReply(key, reply) ==
    IF reply.kind = "text_raises" THEN [exc |-> "ValueError", value |-> <<>>]
    ELSE LET loaded == json_loads(CutClosingFence(CutOpeningFence(StripText(reply.text))))
         IN IF loaded.exc # "none"
            THEN [exc |-> "none", value |-> <<>>]
            ELSE [exc |-> "none",
                  value |-> IF key = "assets" THEN parse_portfolio_image(loaded.v)
                            ELSE parse_trade_image_with_gemini(loaded.v)]

(* the body of the outer try: decoding the image, calling the model, then  *)
(* the inner try                                                           *)
ParseBody(key, image_data, reply) ==
    IF image_data # "png" THEN [exc |-> "UnidentifiedImageError", value |-> <<>>]
    ELSE IF reply.kind = "generate_raises" THEN [exc |-> "GoogleAPIError", value |-> <<>>]
    ELSE ParseReply(key, reply)

(* except Exception as e: return [] *)
ExceptReturnEmpty_Reraise(r) == r

ExceptReturnEmpty(r) == IF r.exc # "none" THEN [exc |-> "none", value |-> <<>>] ELSE r

(* parse_portfolio_image(image_data, mime_type), the whole function *)
ParsePortfolioImage(image_data, reply) ==
    ExceptReturnEmpty(ParseBody("assets", image_data, reply))

(* parse_trade_image_with_gemini(image_data, mime_type), the whole function *)
ParseTradeImage(image_data, reply) ==
    ExceptReturnEmpty(ParseBody("trades", image_data, reply))

(* the function an endpoint calls for one image *)
ParseImage(key, image_data, reply) ==
    IF key = "assets" THEN ParsePortfolioImage(image_data, reply)
    ELSE ParseTradeImage(image_data, reply)

(* all_assets.extend(assets) *)
Extend_Prepend(all_assets, more) == more \o all_assets

Extend(all_assets, more) == all_assets \o more

(* for image_request in request.images: ...; the images from the k-th on,  *)
(* all_assets being what the earlier ones gave                             *)
RECURSIVE ExtendAll(_, _, _, _, _)
RECURSIVE ExtendWith(_, _, _, _, _, _)

(* the loop after the function returned or raised r for the k-th image *)
ExtendWith(key, images, replies, k, all_assets, r) ==
    IF r.exc # "none" THEN r
    ELSE ExtendAll(key, images, replies, k + 1, Extend(all_assets, r.value))

ExtendAll(key, images, replies, k, all_assets) ==
    IF k > Len(images) THEN [exc |-> "none", value |-> all_assets]
    ELSE IF images[k].image # "" /\ images[k].mimeType # ""
    THEN ExtendWith(key, images, replies, k, all_assets,
                    ParseImage(key, images[k].image, replies[k]))
    ELSE ExtendAll(key, images, replies, k + 1, all_assets)

(* return {key: records}, unless the records could not be had *)
ReturnRecords(key, r) ==
    IF r.exc # "none" THEN RaiseOther ELSE Return(Returned(key, r.value))

(* the try block of a single-image endpoint *)
SingleImage(key, req, replies) ==
    IF req.images[1].image = "" THEN RaiseHTTP(400, "No image data provided")
    ELSE ReturnRecords(key, ParseImage(key, req.images[1].image, replies[1]))

(* the try block of a batch endpoint *)
MultipleImages(key, req, replies) ==
    IF req.images = <<>> THEN RaiseHTTP(400, "No images provided")
    ELSE ReturnRecords(key, ExtendAll(key, req.images, replies, 1, <<>>))

(* a handler behind Depends(get_current_user) *)
Authenticated(req, answer) ==
    IF get_current_user(req.authorization).exc # NoResponse
    THEN get_current_user(req.authorization).exc
    ELSE answer

parse_image(req, replies) ==
    ExceptException(SingleImage("assets", req, replies),
                    "Failed to process image")

parse_multiple_images(req, replies) ==
    ExceptException(MultipleImages("assets", req, replies),
                    "Failed to process images")

parse_trade_image(req, replies) ==
    Authenticated(req, ExceptException(SingleImage("trades", req, replies),
                                       "Failed to process trade image"))

parse_multiple_trade_images(req, replies) ==
    Authenticated(req, ExceptException(MultipleImages("trades", req, replies),
                                       "Failed to process trade images"))

-----------------------------------------------------------------------------
(* The image endpoints: requests, replies of the extraction model, actions *)

MaxImages == 2

Text(text) == [kind |-> "text", text |-> text]

(* response.text raises: the model answered without a text part *)
TextRaises == [kind |-> "text_raises", text |-> <<>>]

(* model.generate_content raises *)
GenerateRaises == [kind |-> "generate_raises", text |-> <<>>]

(* the model is not called for this image *)
NotAsked == [kind |-> "not asked", text |-> <<>>]

Fenced(v) == <<FenceJson, Blank, Document(v), Blank, Fence>>

(* a fenced code block whose opening fence names no language *)
BareFenced(v) == <<Fence, Blank, Document(v), Blank, Fence>>

BigBalance == Holding(N_A, JBool(FALSE), Absent, Absent, Absent, JBigInt, Absent)

HoldingReplies ==
    {Text(<<Document(JList(<<ExampleCash>>))>>),
     Text(Fenced(JList(<<ExampleApple("purchasePrice"), ExampleBadCo("purchasePrice")>>))),
     Text(<<Blank, Document(JList(<<>>))>>),
     Text(<<Document(JList(<<BigBalance, ExampleCash>>))>>),
     Text(<<Document(ExampleCash)>>),
     Text(<<Document(JInt(5))>>),
     Text(<<Document(JNull)>>),
     Text(<<Document(JStr(<<"a", "b">>))>>),
     Text(<<Document(JList(<<JInt(5), JNull>>))>>),
     Text(<<Prose>>),
     Text(<<Prose, Blank, Document(JList(<<ExampleCash>>))>>),
     Text(BareFenced(JList(<<ExampleCash>>))),
     Text(<<>>),
     TextRaises,
     GenerateRaises}

GoodTrade == Trade(D_1, T_open, JInt(2), JStr(<<"5", ".", "1", "3">>))

TradeReplies ==
    {Text(<<Document(JList(<<GoodTrade>>))>>),
     Text(Fenced(JList(<<Trade(D_1, T_option, JInt(-3), JInt(2)), Trade(D_1, T_open, JNull, JInt(2))>>))),
     Text(<<Blank, Document(JList(<<>>))>>),
     Text(<<Document(JList(<<Trade(D_1, JInt(5), JInt(2), JInt(2)), GoodTrade>>))>>),
     Text(<<Document(GoodTrade)>>),
     Text(<<Document(JInt(5))>>),
     Text(<<Document(JNull)>>),
     Text(<<Document(JStr(<<"a", "b">>))>>),
     Text(<<Document(JList(<<JInt(5), JNull>>))>>),
     Text(<<Prose>>),
     Text(<<Prose, Blank, Document(JList(<<GoodTrade>>))>>),
     Text(BareFenced(JList(<<GoodTrade>>))),
     Text(<<>>),
     TextRaises,
     GenerateRaises}

(* ImageParseRequest: image is the base64 text (empty, not an image, or an *)
(* image), mimeType a string                                               *)
ImageRequest(image, mimeType) == [image |-> image, mimeType |-> mimeType]

ImageRequests ==
    {ImageRequest("", "image/png"), ImageRequest("corrupt", "image/png"),
     ImageRequest("png", "image/png"), ImageRequest("png", "")}

(* the replies considered for the images of a batch *)
BatchHoldingReplies ==
    {Text(<<Document(JList(<<ExampleCash>>))>>),
     Text(Fenced(JList(<<ExampleApple("purchasePrice"), ExampleBadCo("purchasePrice")>>))),
     Text(<<Document(JList(<<BigBalance, ExampleCash>>))>>),
     Text(<<Prose>>),
     GenerateRaises}

BatchTradeReplies ==
    {Text(<<Document(JList(<<GoodTrade>>))>>),
     Text(Fenced(JList(<<Trade(D_1, T_option, JInt(-3), JInt(2)), Trade(D_1, T_open, JNull, JInt(2))>>))),
     Text(<<Document(JList(<<Trade(D_1, JInt(5), JInt(2), JInt(2)), GoodTrade>>))>>),
     Text(<<Prose>>),
     GenerateRaises}

IsBatchEndpoint(endpoint) ==
    endpoint \in {"parse_multiple_images", "parse_multiple_trade_images"}

(* what the model answers for an image that decodes *)
RepliesFor(endpoint) ==
    CASE endpoint = "parse_image" -> HoldingReplies
      [] endpoint = "parse_trade_image" -> TradeReplies
      [] endpoint = "parse_multiple_images" -> BatchHoldingReplies
      [] endpoint = "parse_multiple_trade_images" -> BatchTradeReplies

ImageEndpoints ==
    {"parse_image", "parse_multiple_images", "parse_trade_image", "parse_multiple_trade_images"}

IsTradeEndpoint(endpoint) == endpoint \in {"parse_trade_image", "parse_multiple_trade_images"}

ImageHeaders == {NoHeader, Bearer("tokA"), Bearer("expired")}

ValidatorUnused ==
    /\ call = "none"
    /\ parsed = JNull
    /\ assets = JNull
    /\ validated_assets = <<>>
    /\ trades = JNull
    /\ validated_trades = <<>>
    /\ i = 0
    /\ pc = "none"
    /\ result = <<>>
    /\ raised = "none"

StoreUnused ==
    /\ db = <<>>
    /\ before = <<>>
    /\ store_calls = <<>>
    /\ served = 0

(* the replies of the model to the images of a request: the model is asked *)
(* for the images that decode only                                         *)
RECURSIVE RepliesTo(_, _)
RepliesTo(endpoint, images) ==
    IF images = <<>> THEN {<<>>}
    ELSE LET last == images[Len(images)]
             earlier == RepliesTo(endpoint, SubSeq(images, 1, Len(images) - 1))
         IN {Append(replies, reply) :
                replies \in earlier,
                reply \in IF last.image # "png" THEN {NotAsked} ELSE RepliesFor(endpoint)}

InitImages ==
    /\ ValidatorUnused
    /\ SessionUnused
    /\ PortfolioUnused
    /\ StoreUnused
    /\ yf = <<>>
    /\ supabase \in BOOLEAN
    /\ \E endpoint \in ImageEndpoints :
       \E images \in SeqsUpTo(ImageRequests, MaxImages) :
       \E authorization \in ImageHeaders :
           /\ endpoint \in {"parse_image", "parse_trade_image"} => Len(images) = 1
           /\ ~IsTradeEndpoint(endpoint) => authorization = NoHeader /\ supabase
           /\ request = [endpoint |-> endpoint, images |-> images,
                         authorization |-> authorization]
    /\ gemini \in RepliesTo(request.endpoint, request.images)
    /\ response = NoResponse

Answer(endpoint, answer) ==
    /\ request.endpoint = endpoint
    /\ response = NoResponse
    /\ response' = answer
    /\ UNCHANGED <<validator_vars, request, gemini, yf, supabase, db, before,
                   store_calls, served, session, portfolio>>

ServeParseImage == Answer("parse_image", parse_image(request, gemini))

ServeParseMultipleImages ==
    Answer("parse_multiple_images", parse_multiple_images(request, gemini))

ServeParseTradeImage == Answer("parse_trade_image", parse_trade_image(request, gemini))

ServeParseMultipleTradeImages ==
    Answer("parse_multiple_trade_images", parse_multiple_trade_images(request, gemini))

NextImages ==
    \/ ServeParseImage
    \/ ServeParseMultipleImages
    \/ ServeParseTradeImage
    \/ ServeParseMultipleTradeImages

SpecImages == InitImages /\ [][NextImages]_vars

-----------------------------------------------------------------------------
(* Properties of the image endpoints *)

Answered == response # NoResponse

(* the request passed get_current_user, or its endpoint does not ask for it *)
PassesAuth ==
    IsTradeEndpoint(request.endpoint) => supabase /\ request.authorization = Bearer("tokA")

(* the records the function of the endpoint returns for the k-th image *)
RecordsOf(k) ==
    IF IsTradeEndpoint(request.endpoint)
    THEN ParseTradeImage(request.images[k].image, gemini[k])
    ELSE ParsePortfolioImage(request.images[k].image, gemini[k])

(* the text of the reply is not parseable as JSON once stripped of its fences *)
NotParseable(reply) ==
    LET text == StripText(reply.text)
        unfenced == IF text # <<>> /\ Head(text) = FenceJson /\ text[Len(text)] = Fence
                    THEN SubSeq(text, 2, Len(text) - 1) ELSE text
    IN \A v \in {p.v : p \in {q \in {unfenced[j] : j \in 1..Len(unfenced)} : q.c = "document"}} :
           StripText(unfenced) # <<Document(v)>>

(* the JSON value of a parseable reply *)
ValueOf(reply) ==
    (CHOOSE p \in {reply.text[j] : j \in 1..Len(reply.text)} : p.c = "document").v

(* the value is not an array of mappings: an object, a number, a string,   *)
(* null, or an array without any mapping in it                             *)
NotArrayOfMappings(v) ==
    v.t # "list" \/ \A j \in 1..Len(v.a) : v.a[j].t # "dict"

(* the overall response for the k-th image is malformed: the image does    *)
(* not decode, the model call or its text raises, the text is not          *)
(* parseable, or it is not an array of mappings                            *)
MalformedOverall(k) ==
    \/ request.images[k].image = "corrupt"
    \/ /\ request.images[k].image = "png"
       /\ \/ gemini[k].kind \in {"generate_raises", "text_raises"}
          \/ /\ gemini[k].kind = "text"
             /\ \/ NotParseable(gemini[k])
                \/ NotArrayOfMappings(ValueOf(gemini[k]))

(* C12: when the overall response for an image is malformed (the image     *)
(* does not decode, the model call raises, the text is not parseable, or   *)
(* it is an object, a number, a string, null or an array without a         *)
(* mapping), parse_portfolio_image and parse_trade_image_with_gemini       *)
(* return the empty sequence without raising, and the single-image         *)
(* endpoints answer 200 with zero records.                                 *)
C12_MalformedResponseIsEmpty ==
    /\ \A k \in 1..Len(request.images) :
           MalformedOverall(k) => RecordsOf(k) = [exc |-> "none", value |-> <<>>]
    /\ /\ Answered
       /\ request.endpoint \in {"parse_image", "parse_trade_image"}
       /\ PassesAuth
       /\ MalformedOverall(1)
       => Succeeded /\ response.records = <<>>

(* a single-image endpoint answered a reply that is not JSON *)
C12_Witness ==
    /\ Answered
    /\ request.endpoint = "parse_trade_image"
    /\ PassesAuth
    /\ gemini[1] = Text(<<Prose>>)
    /\ Succeeded
    /\ response.records = <<>>

-----------------------------------------------------------------------------
(* Trades validation *)

trade_keys == {"date", "ticker", "realized_pnl", "percent_diff"}

(* a mapping with the four keys whose realized_pnl and percent_diff coerce *)
CoercibleTrade(x) ==
    /\ IsMapping(x)
    /\ \A key \in trade_keys : Has(x.d, key)
    /\ Coerces(x.d, "realized_pnl")
    /\ Coerces(x.d, "percent_diff")

(* the record coming out of the trade x *)
TradeOutOf(out, x) ==
    /\ IsMapping(out)
    /\ out.d["realized_pnl"] = PyFloat(x.d["realized_pnl"]).v
    /\ out.d["percent_diff"] = PyFloat(x.d["percent_diff"]).v
    /\ out.d["realized_pnl"].t \in {"float", "nan", "inf"}
    /\ out.d["percent_diff"].t \in {"float", "nan", "inf"}
    /\ x.d["ticker"].t = "str" =>
           out.d["ticker"].t = "str" /\ out.d["ticker"].s = UpperStr(x.d["ticker"].s)
    /\ out.d["date"] = x.d["date"]

(* C13: trades validation keeps an element if and only if it is a mapping  *)
(* with the keys date, ticker, realized_pnl and percent_diff whose          *)
(* realized_pnl and percent_diff both coerce to a number: the output is,    *)
(* in order, one record per such element, with realized_pnl and            *)
(* percent_diff numeric (the string "5.13" becomes 5.13), the ticker        *)
(* upper-cased and the date unchanged, whatever its format.                *)
C13_TradeIsKeptIffCoercible ==
    TradesDone /\ IsArray =>
        LET kept == SelectSeq(input, CoercibleTrade)
        IN /\ Len(result) = Len(kept)
           /\ \A j \in 1..Len(result) : TradeOutOf(result[j], kept[j])

-----------------------------------------------------------------------------
(* Batch parsing *)

BatchAnswered ==
    /\ Answered
    /\ IsBatchEndpoint(request.endpoint)
    /\ PassesAuth
    /\ request.images # <<>>

(* the image is one the batch loop extracts from: it has data and a mime type *)
Extracted(k) == request.images[k].image # "" /\ request.images[k].mimeType # ""

(* the validated records of the images up to the k-th, in submission order *)
RECURSIVE RecordsUpTo(_)
RecordsUpTo(k) ==
    IF k = 0 THEN <<>> ELSE RecordsUpTo(k - 1) \o RecordsOf(k).value

(* the same, of the images that have data and a mime type *)
RECURSIVE ExtractedUpTo(_)
ExtractedUpTo(k) ==
    IF k = 0 THEN <<>>
    ELSE ExtractedUpTo(k - 1) \o (IF Extracted(k) THEN RecordsOf(k).value ELSE <<>>)

(* the request without its k-th image *)
Without(k) ==
    [request EXCEPT !.images = RemoveAt(request.images, k)]

(* the answer of the batch endpoint to the request without its k-th image *)
AnswerWithout(k) ==
    IF IsTradeEndpoint(request.endpoint)
    THEN parse_multiple_trade_images(Without(k), RemoveAt(gemini, k))
    ELSE parse_multiple_images(Without(k), RemoveAt(gemini, k))

(* C14, as stated: for a non-empty list of images the batch endpoints      *)
(* succeed with the concatenation, in submission order, of the validated   *)
(* records of every image.                                                 *)
C14_BatchIsConcatenation ==
    BatchAnswered =>
        Succeeded /\ response.records = RecordsUpTo(Len(request.images))

(* C14, amended: for a non-empty list of images the batch endpoints        *)
(* succeed with the concatenation, in submission order, of the validated   *)
(* records of every image that has image data and a non-empty mime type;   *)
(* the other images are skipped. An image whose extraction fails           *)
(* contributes nothing and the records are those of the same request       *)
(* without that image.                                                     *)
C14_BatchIsConcatenationOfExtracted ==
    BatchAnswered =>
        /\ Succeeded
        /\ response.records = ExtractedUpTo(Len(request.images))
        /\ \A k \in 1..Len(request.images) :
               Len(request.images) > 1 /\ (MalformedOverall(k) \/ ~Extracted(k)) =>
                   response.records = AnswerWithout(k).records

(* a batch of two images was answered: the first fails, the second gives a *)
(* record                                                                  *)
C14_Witness ==
    /\ BatchAnswered
    /\ Len(request.images) = 2
    /\ MalformedOverall(1)
    /\ Extracted(2)
    /\ Succeeded
    /\ Len(response.records) = 1

-----------------------------------------------------------------------------
(* The store: the tables the endpoints read and write through the client   *)
(*                                                                         *)
(* db is a record of tables. portfolio_assets is the sequence of its rows  *)
(* in insertion order (the endpoints never address one of its rows); the   *)
(* tables trades, watchlist and journal are sets of rows, each with the id *)
(* the store gave it; next_id is the id the store gives next, per table.   *)
(* A column that holds null, a string or a number holds a JSON value. The  *)
(* time stamps (created_at, updated_at) are left out of the rows.          *)
(* Every call on the store may raise (the service cannot be reached): a    *)
(* handler is given the number of its store call that raises, 0 for none.  *)

(* what a handler did: the store it leaves, how its try block ended, and   *)
(* the store calls it made                                                 *)
Did(d, outcome, calls) == [db |-> d, outcome |-> outcome, calls |-> calls]

(* the last of the calls raised, which ends the try block *)
DidRaise(d, calls) == Did(d, RaiseOther, Append(calls, "raises"))

(* .eq("user_id", user_id) *)
OwnedBy(rows, user_id) == {r \in rows : r.user_id = user_id}

(* .eq("id", id).eq("user_id", user_id) *)
Matching_IdOnly(rows, id, user_id) == {r \in rows : r.id = id}

Matching(rows, id, user_id) == {r \in rows : r.id = id /\ r.user_id = user_id}

(* insert(row).execute(): the store gives the row its id *)
Inserted(d, table, row) ==
    [d EXCEPT ![table] = @ \cup {[row EXCEPT !.id = d.next_id[table]]},
              !.next_id[table] = @ + 1]

(* update(update_data).eq(...).execute() on the rows hit *)
Updated(d, table, hit, update_data) ==
    [d EXCEPT ![table] =
        (@ \ hit) \cup {[k \in DOMAIN r |-> IF k \in DOMAIN update_data THEN update_data[k]
                                            ELSE r[k]] : r \in hit}]

(* delete().eq(...).execute() on the rows hit *)
Deleted(d, table, hit) == [d EXCEPT ![table] = @ \ hit]

(* the entries of a dict built by a run of `if x is not None: d[k] = x` *)
Provided(fields) == [k \in {f \in DOMAIN fields : fields[f] # JNull} |-> fields[k]]

-----------------------------------------------------------------------------
(* Portfolio endpoints *)

(* asset_dict of save_portfolio *)
AssetRow(user_id, a) ==
    [user_id |-> user_id, name |-> a.name, is_stock |-> a.isStock, ticker |-> a.ticker,
     shares |-> a.shares, current_price |-> a.currentPrice,
     purchase_price |-> a.purchasePrice, balance |-> a.balance, apy |-> a.apy]

(* PortfolioAsset(name=row["name"], ...) of get_portfolio *)
PortfolioAsset_PricesSwapped(row) ==
    [name |-> row.name, isStock |-> row.is_stock, ticker |-> row.ticker,
     shares |-> row.shares, currentPrice |-> row.purchase_price,
     purchasePrice |-> row.current_price, balance |-> row.balance, apy |-> row.apy]

PortfolioAsset(row) ==
    [name |-> row.name, isStock |-> row.is_stock, ticker |-> row.ticker,
     shares |-> row.shares, currentPrice |-> row.current_price,
     purchasePrice |-> row.purchase_price, balance |-> row.balance, apy |-> row.apy]

(* the rows of a sequence that the user does not own / owns *)
NotOf(rows, user_id) == SelectSeq(rows, LAMBDA r : r.user_id # user_id)

Of(rows, user_id) == SelectSeq(rows, LAMBDA r : r.user_id = user_id)

(* the try block of save_portfolio *)
save_portfolio(d, user_id, portfolio_data, fail) ==
    LET assets_data == [k \in 1..Len(portfolio_data) |-> AssetRow(user_id, portfolio_data[k])]
        deleted == [d EXCEPT !.portfolio_assets = NotOf(@, user_id)]
        inserted == [deleted EXCEPT !.portfolio_assets = @ \o assets_data]
    IN IF fail = 1 THEN DidRaise(d, <<"delete">>)
       ELSE IF assets_data = <<>>
       THEN Did(deleted, Return(Returned("assets_count", 0)), <<"delete">>)
       ELSE IF fail = 2 THEN DidRaise(deleted, <<"delete", "insert">>)
       ELSE Did(inserted, Return(Returned("assets_count", Len(assets_data))),
                <<"delete", "insert">>)

(* the try block of get_portfolio; the select has no order, so the rows    *)
(* come in the order the store chooses: order is a permutation of them     *)
get_portfolio(d, user_id, order, fail) ==
    LET rows == Of(d.portfolio_assets, user_id)
    IN IF fail = 1 THEN DidRaise(d, <<"select">>)
       ELSE Did(d, Return(Returned("assets", [k \in 1..Len(rows) |-> PortfolioAsset(rows[order[k]])])),
                <<"select">>)

(* the orders in which n rows may come *)
Orders(n) == {f \in [1..n -> 1..n] : \A a, b \in 1..n : a # b => f[a] # f[b]}

-----------------------------------------------------------------------------
(* Trade endpoints *)

(* trade_data.ticker.upper() *)
UpperOf(x) == JStr(UpperStr(x.s))

(* Trade(id=row["id"], date=row["date"], ...) *)
TradeOf(row) ==
    [id |-> row.id, date |-> row.date, ticker |-> row.ticker,
     realized_pnl |-> row.realized_pnl, percent_diff |-> row.percent_diff]

(* Python's == on two columns that hold a number or None *)
PyEq_NoneUnequal(x, y) == x = y /\ x # JNull

PyEq(x, y) == x = y

(* the rows create_trade takes for duplicates of trade_data *)
Duplicates_PercentIgnored(rows, user_id, trade_data) ==
    {r \in OwnedBy(rows, user_id) :
        /\ r.date = trade_data.date
        /\ r.ticker = UpperOf(trade_data.ticker)
        /\ PyEq(r.realized_pnl, trade_data.realized_pnl)}

Duplicates(rows, user_id, trade_data) ==
    {r \in OwnedBy(rows, user_id) :
        /\ r.date = trade_data.date
        /\ r.ticker = UpperOf(trade_data.ticker)
        /\ PyEq(r.realized_pnl, trade_data.realized_pnl)
        /\ PyEq(r.percent_diff, trade_data.percent_diff)}

(* trade_dict of create_trade *)
TradeRow(user_id, trade_data) ==
    [id |-> 0, user_id |-> user_id, date |-> trade_data.date,
     ticker |-> UpperOf(trade_data.ticker), realized_pnl |-> trade_data.realized_pnl,
     percent_diff |-> trade_data.percent_diff]

(* the row the store gave an id on the last insert into the table *)
LastInserted(d, table) == CHOOSE r \in d[table] : r.id = d.next_id[table] - 1

(* {"trade": Trade(...), "is_duplicate": ...} *)
TradeAnswer(created_trade, is_duplicate) ==
    [status_code |-> 200, key |-> "trade", records |-> created_trade,
     is_duplicate |-> is_duplicate]

(* the try block of create_trade *)
create_trade(d, user_id, trade_data, fail) ==
    LET checks == IF trade_data.is_image_upload THEN <<"select">> ELSE <<>>
        duplicates == Duplicates(d.trades, user_id, trade_data)
        created == Inserted(d, "trades", TradeRow(user_id, trade_data))
    IN IF trade_data.is_image_upload /\ fail = 1 THEN DidRaise(d, checks)
       ELSE IF trade_data.is_image_upload /\ duplicates # {}
       THEN Did(d, Return(TradeAnswer(TradeOf(CHOOSE r \in duplicates : TRUE), TRUE)), checks)
       ELSE IF fail = Len(checks) + 1 THEN DidRaise(d, Append(checks, "insert"))
       ELSE Did(created, Return(TradeAnswer(TradeOf(LastInserted(created, "trades")), FALSE)),
                Append(checks, "insert"))

(* the try block of get_trades; the order (by date, descending) is not     *)
(* modelled: the rows answered are a set                                   *)
get_trades(d, user_id, fail) ==
    IF fail = 1 THEN DidRaise(d, <<"select">>)
    ELSE Did(d, Return(Returned("trades", {TradeOf(r) : r \in OwnedBy(d.trades, user_id)})),
             <<"select">>)

(* update_data of update_trade *)
TradeUpdateData_NullsWritten(trade_data) ==
    [date |-> trade_data.date,
     ticker |-> IF trade_data.ticker # JNull THEN UpperOf(trade_data.ticker) ELSE JNull,
     realized_pnl |-> trade_data.realized_pnl,
     percent_diff |-> trade_data.percent_diff]

TradeUpdateData(trade_data) ==
    Provided([date |-> trade_data.date,
              ticker |-> IF trade_data.ticker # JNull THEN UpperOf(trade_data.ticker) ELSE JNull,
              realized_pnl |-> trade_data.realized_pnl,
              percent_diff |-> trade_data.percent_diff])

(* the try block of update_trade *)
update_trade(d, user_id, trade_id, trade_data, fail) ==
    LET update_data == TradeUpdateData(trade_data)
        hit == Matching(d.trades, trade_id, user_id)
        updated == Updated(d, "trades", hit, update_data)
    IN IF DOMAIN update_data = {} THEN Did(d, RaiseHTTP(400, "No fields to update"), <<>>)
       ELSE IF fail = 1 THEN DidRaise(d, <<"update">>)
       ELSE IF hit # {}
       THEN Did(updated, Return(Returned("trade",
                    TradeOf(CHOOSE r \in updated.trades : r.id = trade_id))), <<"update">>)
       ELSE Did(updated, RaiseHTTP(404, "Trade not found"), <<"update">>)

(* the try block of delete_trade *)
delete_trade(d, user_id, trade_id, fail) ==
    LET hit == Matching(d.trades, trade_id, user_id)
    IN IF fail = 1 THEN DidRaise(d, <<"delete">>)
       ELSE IF hit # {}
       THEN Did(Deleted(d, "trades", hit), Return(Returned("message", {})), <<"delete">>)
       ELSE Did(d, RaiseHTTP(404, "Trade not found"), <<"delete">>)

(* get_trade_analytics *)

(* the days of the month *)
DaysIn(year, month) ==
    IF month = 2
    THEN (IF year % 4 = 0 /\ (year % 100 # 0 \/ year % 400 = 0) THEN 29 ELSE 28)
    ELSE IF month \in {4, 6, 9, 11} THEN 30 ELSE 31

(* the text has the form YYYY-MM-DD *)
HasDateForm(chars) ==
    /\ Len(chars) = 10
    /\ chars[5] = "-" /\ chars[8] = "-"
    /\ \A k \in {1, 2, 3, 4, 6, 7, 9, 10} : IsDigit(chars[k])

(* datetime.fromisoformat(text) for a text that holds a date only: the     *)
(* year, the month and the day, or ValueError. Texts with a time part and  *)
(* the other ISO forms later versions of the library read are not among    *)
(* the dates considered.                                                   *)
fromisoformat(chars) ==
    LET year == DigitsToNat(SubSeq(chars, 1, 4))
        month == DigitsToNat(SubSeq(chars, 6, 7))
        day == DigitsToNat(SubSeq(chars, 9, 10))
    IN IF /\ HasDateForm(chars)
          /\ year >= 1
          /\ month \in 1..12
          /\ day \in 1..DaysIn(year, month)
       THEN [raises |-> FALSE, year |-> year, month |-> month, day |-> day]
       ELSE [raises |-> TRUE, year |-> 0, month |-> 0, day |-> 0]

(* str(n) for n >= 0 *)
RECURSIVE Decimal(_)
Decimal(n) == IF n < 10 THEN <<Digits[n + 1]>> ELSE Append(Decimal(n \div 10), Digits[(n % 10) + 1])

(* f"{date.year}-{date.month:02d}" *)
month_key(date) ==
    Decimal(date.year) \o <<"-">>
        \o (IF date.month < 10 THEN <<"0">> ELSE <<>>) \o Decimal(date.month)

(* round(num / den, 2) in thousandths, for num in thousandths; the amounts *)
(* considered have no quotient half-way between two hundredths             *)
Round2(num, den) ==
    LET hundredths(x) == (2 * x + 10 * den) \div (20 * den)
    IN IF num >= 0 THEN 10 * hundredths(num) ELSE 0 - 10 * hundredths(0 - num)

(* [t for t in trades if t.get("realized_pnl", 0) > 0] *)
Winning_ZeroCounts(rows) == {t \in rows : t.realized_pnl.n >= 0}

Winning(rows) == {t \in rows : t.realized_pnl.n > 0}

(* [t for t in trades if t.get("realized_pnl", 0) < 0] *)
Losing(rows) == {t \in rows : t.realized_pnl.n < 0}

(* sum(t.get("realized_pnl", 0) for t in trades), in thousandths *)
RECURSIVE SumPnl(_)
SumPnl(rows) ==
    IF rows = {} THEN 0
    ELSE LET t == CHOOSE r \in rows : TRUE
         IN t.realized_pnl.n + SumPnl(rows \ {t})

(* (winning / total) * 100 if total > 0 else 0, as the fraction it is *)
Rate(winning, total) ==
    IF total > 0 THEN [num |-> winning * 100, den |-> total] ELSE [num |-> 0, den |-> 1]

(* the trades of the month *)
InMonth(rows, key) == {t \in rows : month_key(fromisoformat(t.date.s)) = key}

(* monthly_performance after the loop over the trades and the loop over    *)
(* the months                                                              *)
MonthlyPerformance(rows) ==
    [key \in {month_key(fromisoformat(t.date.s)) : t \in rows} |->
        [total_pnl |-> SumPnl(InMonth(rows, key)),
         total_trades |-> Cardinality(InMonth(rows, key)),
         winning_trades |-> Cardinality(Winning(InMonth(rows, key))),
         losing_trades |-> Cardinality(Losing(InMonth(rows, key))),
         success_rate |-> Rate(Cardinality(Winning(InMonth(rows, key))),
                               Cardinality(InMonth(rows, key)))]]

(* the dict get_trade_analytics returns *)
Analytics(total_trades, winning_trades, losing_trades, success_rate, total_pnl, average_pnl,
          monthly_performance) ==
    [status_code |-> 200, total_trades |-> total_trades, winning_trades |-> winning_trades,
     losing_trades |-> losing_trades, success_rate |-> success_rate, total_pnl |-> total_pnl,
     average_pnl |-> average_pnl, monthly_performance |-> monthly_performance]

(* None > 0 raises TypeError *)
ComparisonRaises(rows) == \E t \in rows : t.realized_pnl = JNull

(* datetime.fromisoformat(trade["date"]) raises ValueError *)
DateRaises(rows) == \E t \in rows : fromisoformat(t.date.s).raises

(* the try block of get_trade_analytics *)
get_trade_analytics(d, user_id, fail) ==
    IF fail = 1 THEN DidRaise(d, <<"select">>)
    ELSE IF OwnedBy(d.trades, user_id) = {}
    THEN Did(d, Return(Analytics(0, 0, 0, 0, 0, 0, <<>>)), <<"select">>)
    ELSE IF ComparisonRaises(OwnedBy(d.trades, user_id)) \/ DateRaises(OwnedBy(d.trades, user_id))
    THEN Did(d, RaiseOther, <<"select">>)
    ELSE Did(d, Return(Analytics(
                 Cardinality(OwnedBy(d.trades, user_id)),
                 Cardinality(Winning(OwnedBy(d.trades, user_id))),
                 Cardinality(Losing(OwnedBy(d.trades, user_id))),
                 Round2(Cardinality(Winning(OwnedBy(d.trades, user_id))) * 100 * Scale,
                        Cardinality(OwnedBy(d.trades, user_id))),
                 Round2(SumPnl(OwnedBy(d.trades, user_id)), 1),
                 Round2(SumPnl(OwnedBy(d.trades, user_id)), Cardinality(OwnedBy(d.trades, user_id))),
                 MonthlyPerformance(OwnedBy(d.trades, user_id)))),
             <<"select">>)

-----------------------------------------------------------------------------
(* Watchlist and journal endpoints *)

(* x if x and x.strip() else None *)
NoneIfBlank(x) == IF x # JNull /\ Strip(x.s) # <<>> THEN x ELSE JNull

(* x.strip() *)
Stripped(x) == JStr(Strip(x.s))

(* the fields of a row that the list endpoints select: all but user_id *)
Selected(row) == [k \in DOMAIN row \ {"user_id"} |-> row[k]]

(* the try block of an endpoint that lists the rows of the user *)
ListRows(d, table, key, user_id, fail) ==
    IF fail = 1 THEN DidRaise(d, <<"select">>)
    ELSE Did(d, Return(Returned(key, {Selected(r) : r \in OwnedBy(d[table], user_id)})),
             <<"select">>)

(* the try block of an endpoint that checks that the row exists and        *)
(* belongs to the user and then updates it; it answers the row, or only a  *)
(* message                                                                 *)
CheckThenUpdate(d, table, key, missing, id, user_id, update_data, fail) ==
    LET existing == Matching(d[table], id, user_id)
        updated == Updated(d, table, existing, update_data)
    IN IF fail = 1 THEN DidRaise(d, <<"select">>)
       ELSE IF existing = {} THEN Did(d, RaiseHTTP(404, missing), <<"select">>)
       ELSE IF fail = 2 THEN DidRaise(d, <<"select", "update">>)
       ELSE Did(updated,
                Return(Returned(key, IF key = "message" THEN {}
                                     ELSE {Selected(r) : r \in Matching(updated[table], id, user_id)})),
                <<"select", "update">>)

(* the try block of an endpoint that checks that the row exists and        *)
(* belongs to the user and then deletes it                                 *)
CheckThenDelete(d, table, missing, id, user_id, fail) ==
    LET existing == Matching(d[table], id, user_id)
    IN IF fail = 1 THEN DidRaise(d, <<"select">>)
       ELSE IF existing = {} THEN Did(d, RaiseHTTP(404, missing), <<"select">>)
       ELSE IF fail = 2 THEN DidRaise(d, <<"select", "delete">>)
       ELSE Did(Deleted(d, table, existing), Return(Returned("message", {})),
                <<"select", "delete">>)

(* the try block of create_watchlist_item *)
create_watchlist_item(d, user_id, item, fail) ==
    LET ticker == UpperOf(Stripped(item.ticker))
        existing == {r \in OwnedBy(d.watchlist, user_id) : r.ticker = ticker}
        data == [id |-> 0, user_id |-> user_id, ticker |-> ticker,
                 notes |-> NoneIfBlank(item.notes), chart_link |-> NoneIfBlank(item.chart_link)]
        created == Inserted(d, "watchlist", data)
    IN IF fail = 1 THEN DidRaise(d, <<"select">>)
       ELSE IF existing # {}
       THEN Did(d, RaiseHTTP(400, "Ticker already in watchlist"), <<"select">>)
       ELSE IF fail = 2 THEN DidRaise(d, <<"select", "insert">>)
       ELSE Did(created, Return(Returned("item", {Selected(LastInserted(created, "watchlist"))})),
                <<"select", "insert">>)

get_watchlist(d, user_id, fail) == ListRows(d, "watchlist", "watchlist", user_id, fail)

(* update_data of update_watchlist_item: a field that is given is set, to  *)
(* None when it is blank                                                   *)
WatchlistUpdateData(item) ==
    [k \in {f \in {"ticker", "notes", "chart_link"} : item[f] # JNull} |->
        IF k = "ticker" THEN UpperOf(Stripped(item.ticker)) ELSE NoneIfBlank(item[k])]

update_watchlist_item(d, user_id, item_id, item, fail) ==
    CheckThenUpdate(d, "watchlist", "item", "Watchlist item not found", item_id, user_id,
                    WatchlistUpdateData(item), fail)

delete_watchlist_item(d, user_id, item_id, fail) ==
    CheckThenDelete(d, "watchlist", "Watchlist item not found", item_id, user_id, fail)

(* the try block of create_journal_entry *)
create_journal_entry(d, user_id, entry, fail) ==
    LET data == [id |-> 0, user_id |-> user_id, title |-> Stripped(entry.title),
                 content |-> Stripped(entry.content),
                 tags |-> IF NoneIfBlank(entry.tags) # JNull THEN Stripped(entry.tags) ELSE JNull,
                 position_x |-> entry.position_x, position_y |-> entry.position_y,
                 width |-> entry.width, height |-> entry.height]
        created == Inserted(d, "journal", data)
    IN IF fail = 1 THEN DidRaise(d, <<"insert">>)
       ELSE Did(created, Return(Returned("entry", {Selected(LastInserted(created, "journal"))})),
                <<"insert">>)

get_journal_entries(d, user_id, fail) == ListRows(d, "journal", "entries", user_id, fail)

(* update_data of update_journal_entry *)
JournalUpdateData(entry) ==
    [k \in {f \in {"title", "content", "tags"} : entry[f] # JNull} |->
        IF k = "tags"
        THEN (IF Strip(entry.tags.s) # <<>> THEN Stripped(entry.tags) ELSE JNull)
        ELSE Stripped(entry[k])]

update_journal_entry(d, user_id, entry_id, entry, fail) ==
    CheckThenUpdate(d, "journal", "entry", "Journal entry not found", entry_id, user_id,
                    JournalUpdateData(entry), fail)

delete_journal_entry(d, user_id, entry_id, fail) ==
    CheckThenDelete(d, "journal", "Journal entry not found", entry_id, user_id, fail)

update_journal_position(d, user_id, entry_id, position, fail) ==
    CheckThenUpdate(d, "journal", "message", "Journal entry not found", entry_id, user_id,
                    [position_x |-> position.position_x, position_y |-> position.position_y],
                    fail)

update_journal_size(d, user_id, entry_id, size, fail) ==
    CheckThenUpdate(d, "journal", "message", "Journal entry not found", entry_id, user_id,
                    [width |-> size.width, height |-> size.height], fail)

-----------------------------------------------------------------------------
(* The store endpoints: requests and actions *)

MaxRequests == 2

AppleAsset ==
    [name |-> JStr(<<"A">>), isStock |-> JBool(TRUE), ticker |-> JStr(<<"A", "A", "P", "L">>),
     shares |-> JFloat(10500), currentPrice |-> JFloat(150250), purchasePrice |-> JNull,
     balance |-> JFloat(0), apy |-> JFloat(0)]

SavingsAsset ==
    [name |-> JStr(<<"S">>), isStock |-> JBool(FALSE), ticker |-> JNull,
     shares |-> JFloat(0), currentPrice |-> JFloat(0), purchasePrice |-> JFloat(1000),
     balance |-> JFloat(5000000), apy |-> JFloat(45)]

(* the asset lists saved: none, one, the two of the integration test, and  *)
(* the same asset twice                                                     *)
Portfolios ==
    {<<>>, <<SavingsAsset>>, <<AppleAsset, SavingsAsset>>, <<AppleAsset, AppleAsset>>}

D_2 == JStr(<<"2", "5", "-", "0", "9">>)

(* trades read from an image: the trade user A has, and the same with      *)
(* another percent_diff                                                    *)
ImageTradeCreates ==
    {[date |-> D_1, ticker |-> T_open, realized_pnl |-> JFloat(2000), percent_diff |-> pd,
      is_image_upload |-> TRUE] : pd \in {JNull, JFloat(1000)}}

TradeCreates ==
    ImageTradeCreates
    \cup {[date |-> D_1, ticker |-> T_open, realized_pnl |-> JFloat(2000),
           percent_diff |-> JNull, is_image_upload |-> FALSE]}

TradeUpdates ==
    {[date |-> JNull, ticker |-> JNull, realized_pnl |-> JNull, percent_diff |-> JNull],
     [date |-> D_2, ticker |-> T_x, realized_pnl |-> JNull, percent_diff |-> JFloat(1000)]}

(* the item created: the ticker both users have, in another spelling *)
WatchlistCreates ==
    {[ticker |-> JStr(<<" ", "x">>), notes |-> JNull, chart_link |-> JStr(<<" ">>)]}

(* the updates: of no field, and of the notes and the link *)
WatchlistUpdates ==
    {[ticker |-> JNull, notes |-> JNull, chart_link |-> JNull],
     [ticker |-> JNull, notes |-> JStr(<<"n">>), chart_link |-> JStr(<<" ">>)]}

(* with the tickers: the items created have the ticker both users have and *)
(* a ticker nobody has, and an update sets the ticker                      *)
TickerCreates ==
    WatchlistCreates \cup {[ticker |-> JStr(<<"y">>), notes |-> JNull, chart_link |-> JNull]}

TickerUpdates ==
    WatchlistUpdates
    \cup {[ticker |-> JStr(<<"x", " ">>), notes |-> JNull, chart_link |-> JNull]}

JournalCreates ==
    {[title |-> JStr(<<"t", " ">>), content |-> JStr(<<"c">>), tags |-> JStr(<<" ">>),
      position_x |-> JNull, position_y |-> JNull, width |-> JNull, height |-> JNull]}

JournalUpdates ==
    {[title |-> JNull, content |-> JNull, tags |-> JNull],
     [title |-> JStr(<<"u">>), content |-> JNull, tags |-> JStr(<<"g", " ">>)]}

Positions == {[position_x |-> JFloat(1000), position_y |-> JFloat(2000)]}

Sizes == {[width |-> JFloat(3000), height |-> JFloat(4000)]}

(* the ids asked for: the row of A, the row of B, and the row created next *)
Ids == {1, 2, 3}

(* the headers the requests on the store come with: none, one that is not  *)
(* a bearer token, the tokens of the two users, and a token the identity   *)
(* provider rejects                                                        *)
StoreHeaders ==
    {NoHeader, [prefix |-> "Token ", token |-> "tokA"], Bearer("tokA"), Bearer("tokB"),
     Bearer("expired")}

(* the store when the first request arrives: each user has a portfolio and *)
(* a row in each table                                                     *)
InitialRows(user_id, id) ==
    [trades |-> [id |-> id, user_id |-> user_id, date |-> D_1, ticker |-> JStr(<<"O", "P", "E", "N">>),
                 realized_pnl |-> JFloat(2000), percent_diff |-> JNull],
     watchlist |-> [id |-> id, user_id |-> user_id, ticker |-> JStr(<<"X">>), notes |-> JNull,
                    chart_link |-> JNull],
     journal |-> [id |-> id, user_id |-> user_id, title |-> JStr(<<"t">>), content |-> JStr(<<"c">>),
                  tags |-> JNull, position_x |-> JNull, position_y |-> JNull,
                  width |-> JNull, height |-> JNull]]

InitialStore ==
    [portfolio_assets |-> <<AssetRow("A", AppleAsset), AssetRow("B", SavingsAsset),
                            AssetRow("B", AppleAsset)>>,
     trades |-> {InitialRows("A", 1).trades, InitialRows("B", 2).trades},
     watchlist |-> {InitialRows("A", 1).watchlist, InitialRows("B", 2).watchlist},
     journal |-> {InitialRows("A", 1).journal, InitialRows("B", 2).journal},
     next_id |-> [trades |-> 3, watchlist |-> 3, journal |-> 3]]

InitStore ==
    /\ ValidatorUnused
    /\ SessionUnused
    /\ PortfolioUnused
    /\ gemini = <<>>
    /\ yf = <<>>
    /\ supabase \in BOOLEAN
    /\ db = InitialStore
    /\ before = InitialStore
    /\ store_calls = <<>>
    /\ served = 0
    /\ request = [endpoint |-> "none"]
    /\ response = NoResponse

(* the requests considered: MaxRequests of them at most, and one when the  *)
(* client is not configured (none of them gets past get_current_user)      *)
MayServe ==
    /\ response = NoResponse
    /\ served < (IF supabase THEN MaxRequests ELSE 1)

(* the answer was sent: the server awaits the next request *)
AwaitRequest ==
    /\ response # NoResponse
    /\ request' = [endpoint |-> "none"]
    /\ response' = NoResponse
    /\ before' = db
    /\ store_calls' = <<>>
    /\ UNCHANGED <<validator_vars, gemini, yf, supabase, db, served, session, portfolio>>

StoreEndpoints ==
    {"save_portfolio", "get_portfolio", "create_trade", "get_trades", "update_trade",
     "delete_trade", "create_watchlist_item", "get_watchlist", "update_watchlist_item",
     "delete_watchlist_item", "create_journal_entry", "get_journal_entries",
     "update_journal_entry", "delete_journal_entry", "update_journal_position",
     "update_journal_size"}

(* the other endpoints behind Depends(get_current_user) *)
ProtectedEndpoints ==
    StoreEndpoints \cup {"get_current_user_info", "get_trade_analytics", "parse_trade_image",
                         "parse_multiple_trade_images"}

(* Depends(get_current_user) raises: the endpoint is not entered *)
GetCurrentUserRaises ==
    \E endpoint \in ProtectedEndpoints, authorization \in StoreHeaders :
        /\ MayServe
        /\ get_current_user(authorization).exc # NoResponse
        /\ served' = served + 1
        /\ request' = [endpoint |-> endpoint, authorization |-> authorization]
        /\ before' = db
        /\ response' = get_current_user(authorization).exc
        /\ store_calls' = <<>>
        /\ UNCHANGED <<validator_vars, gemini, yf, supabase, db, session, portfolio>>

(* the endpoint is entered with the user id of the token: `if not          *)
(* supabase`, then the try block, whose end the except clauses of the      *)
(* endpoint turn into the answer; a store call that raises is one of the   *)
(* calls the try block makes                                               *)
Serve(req, did, answer, fail, calls) ==
    /\ MayServe
    /\ get_current_user(req.authorization).exc = NoResponse
    /\ fail <= Len(calls)
    /\ served' = served + 1
    /\ request' = req
    /\ before' = db
    /\ IF ~supabase
       THEN /\ response' = HTTPException(500, "Supabase not configured")
            /\ db' = db
            /\ store_calls' = <<>>
       ELSE /\ response' = answer
            /\ db' = did.db
            /\ store_calls' = did.calls
    /\ UNCHANGED <<validator_vars, gemini, yf, supabase, session, portfolio>>

user_id(authorization) == get_current_user(authorization).user_id

Failures == 0..2

ServeSavePortfolio ==
    \E authorization \in StoreHeaders, assets_in \in Portfolios, fail \in Failures :
        LET did == save_portfolio(db, user_id(authorization), assets_in, fail)
        IN Serve([endpoint |-> "save_portfolio", authorization |-> authorization,
                  assets |-> assets_in],
                 did, ExceptException(did.outcome, "Failed to save portfolio"), fail,
                 save_portfolio(db, user_id(authorization), assets_in, 0).calls)

ServeGetPortfolio ==
    \E authorization \in StoreHeaders, fail \in Failures :
    \E order \in Orders(Len(Of(db.portfolio_assets, user_id(authorization)))) :
        LET did == get_portfolio(db, user_id(authorization), order, fail)
        IN Serve([endpoint |-> "get_portfolio", authorization |-> authorization],
                 did, ExceptException(did.outcome, "Failed to get portfolio"), fail,
                 <<"select">>)

CreateTradeFrom(creates) ==
    \E authorization \in StoreHeaders, trade_data \in creates, fail \in Failures :
        LET did == create_trade(db, user_id(authorization), trade_data, fail)
        IN Serve([endpoint |-> "create_trade", authorization |-> authorization,
                  trade_data |-> trade_data],
                 did, ExceptException(did.outcome, "Failed to create trade"), fail,
                 create_trade(db, user_id(authorization), trade_data, 0).calls)

ServeCreateTrade == CreateTradeFrom(TradeCreates)

ServeGetTrades ==
    \E authorization \in StoreHeaders, fail \in Failures :
        LET did == get_trades(db, user_id(authorization), fail)
        IN Serve([endpoint |-> "get_trades", authorization |-> authorization],
                 did, ExceptException(did.outcome, "Failed to get trades"), fail,
                 <<"select">>)

ServeUpdateTrade ==
    \E authorization \in StoreHeaders, trade_id \in Ids, trade_data \in TradeUpdates,
       fail \in Failures :
        LET did == update_trade(db, user_id(authorization), trade_id, trade_data, fail)
        IN Serve([endpoint |-> "update_trade", authorization |-> authorization,
                  id |-> trade_id, trade_data |-> trade_data],
                 did, ExceptException(did.outcome, "Failed to update trade"), fail,
                 update_trade(db, user_id(authorization), trade_id, trade_data, 0).calls)

ServeDeleteTrade ==
    \E authorization \in StoreHeaders, trade_id \in Ids, fail \in Failures :
        LET did == delete_trade(db, user_id(authorization), trade_id, fail)
        IN Serve([endpoint |-> "delete_trade", authorization |-> authorization,
                  id |-> trade_id],
                 did, ExceptException(did.outcome, "Failed to delete trade"), fail,
                 <<"delete">>)

CreateWatchlistItemFrom(items) ==
    \E authorization \in StoreHeaders, item \in items, fail \in Failures :
        LET did == create_watchlist_item(db, user_id(authorization), item, fail)
        IN Serve([endpoint |-> "create_watchlist_item", authorization |-> authorization,
                  item |-> item],
                 did, ExceptHTTPExceptionRaise(did.outcome, "Internal server error"), fail,
                 create_watchlist_item(db, user_id(authorization), item, 0).calls)

ServeCreateWatchlistItem == CreateWatchlistItemFrom(WatchlistCreates)

ServeGetWatchlist ==
    \E authorization \in StoreHeaders, fail \in Failures :
        LET did == get_watchlist(db, user_id(authorization), fail)
        IN Serve([endpoint |-> "get_watchlist", authorization |-> authorization],
                 did, ExceptException(did.outcome, "Internal server error"), fail,
                 <<"select">>)

UpdateWatchlistItemFrom(items) ==
    \E authorization \in StoreHeaders, item_id \in Ids, item \in items, fail \in Failures :
        LET did == update_watchlist_item(db, user_id(authorization), item_id, item, fail)
        IN Serve([endpoint |-> "update_watchlist_item", authorization |-> authorization,
                  id |-> item_id, item |-> item],
                 did, ExceptHTTPExceptionRaise(did.outcome, "Internal server error"), fail,
                 update_watchlist_item(db, user_id(authorization), item_id, item, 0).calls)

ServeUpdateWatchlistItem == UpdateWatchlistItemFrom(WatchlistUpdates)

ServeDeleteWatchlistItem ==
    \E authorization \in StoreHeaders, item_id \in Ids, fail \in Failures :
        LET did == delete_watchlist_item(db, user_id(authorization), item_id, fail)
        IN Serve([endpoint |-> "delete_watchlist_item", authorization |-> authorization,
                  id |-> item_id],
                 did, ExceptHTTPExceptionRaise(did.outcome, "Internal server error"), fail,
                 delete_watchlist_item(db, user_id(authorization), item_id, 0).calls)

ServeCreateJournalEntry ==
    \E authorization \in StoreHeaders, entry \in JournalCreates, fail \in Failures :
        LET did == create_journal_entry(db, user_id(authorization), entry, fail)
        IN Serve([endpoint |-> "create_journal_entry", authorization |-> authorization,
                  entry |-> entry],
                 did, ExceptHTTPExceptionRaise(did.outcome, "Internal server error"), fail,
                 <<"insert">>)

ServeGetJournalEntries ==
    \E authorization \in StoreHeaders, fail \in Failures :
        LET did == get_journal_entries(db, user_id(authorization), fail)
        IN Serve([endpoint |-> "get_journal_entries", authorization |-> authorization],
                 did, ExceptException(did.outcome, "Internal server error"), fail,
                 <<"select">>)

ServeUpdateJournalEntry ==
    \E authorization \in StoreHeaders, entry_id \in Ids, entry \in JournalUpdates,
       fail \in Failures :
        LET did == update_journal_entry(db, user_id(authorization), entry_id, entry, fail)
        IN Serve([endpoint |-> "update_journal_entry", authorization |-> authorization,
                  id |-> entry_id, entry |-> entry],
                 did, ExceptHTTPExceptionRaise(did.outcome, "Internal server error"), fail,
                 update_journal_entry(db, user_id(authorization), entry_id, entry, 0).calls)

ServeDeleteJournalEntry ==
    \E authorization \in StoreHeaders, entry_id \in Ids, fail \in Failures :
        LET did == delete_journal_entry(db, user_id(authorization), entry_id, fail)
        IN Serve([endpoint |-> "delete_journal_entry", authorization |-> authorization,
                  id |-> entry_id],
                 did, ExceptHTTPExceptionRaise(did.outcome, "Internal server error"), fail,
                 delete_journal_entry(db, user_id(authorization), entry_id, 0).calls)

ServeUpdateJournalPosition ==
    \E authorization \in StoreHeaders, entry_id \in Ids, position \in Positions,
       fail \in Failures :
        LET did == update_journal_position(db, user_id(authorization), entry_id, position, fail)
        IN Serve([endpoint |-> "update_journal_position", authorization |-> authorization,
                  id |-> entry_id, position |-> position],
                 did, ExceptHTTPExceptionRaise(did.outcome, "Internal server error"), fail,
                 update_journal_position(db, user_id(authorization), entry_id, position, 0).calls)

ServeUpdateJournalSize ==
    \E authorization \in StoreHeaders, entry_id \in Ids, size \in Sizes, fail \in Failures :
        LET did == update_journal_size(db, user_id(authorization), entry_id, size, fail)
        IN Serve([endpoint |-> "update_journal_size", authorization |-> authorization,
                  id |-> entry_id, size |-> size],
                 did, ExceptHTTPExceptionRaise(did.outcome, "Internal server error"), fail,
                 update_journal_size(db, user_id(authorization), entry_id, size, 0).calls)

NextStore ==
    \/ GetCurrentUserRaises
    \/ ServeSavePortfolio
    \/ ServeGetPortfolio
    \/ ServeCreateTrade
    \/ ServeGetTrades
    \/ ServeUpdateTrade
    \/ ServeDeleteTrade
    \/ ServeCreateWatchlistItem
    \/ ServeGetWatchlist
    \/ ServeUpdateWatchlistItem
    \/ ServeDeleteWatchlistItem
    \/ ServeCreateJournalEntry
    \/ ServeGetJournalEntries
    \/ ServeUpdateJournalEntry
    \/ ServeDeleteJournalEntry
    \/ ServeUpdateJournalPosition
    \/ ServeUpdateJournalSize
    \/ AwaitRequest

SpecStore == InitStore /\ [][NextStore]_vars

(* the server when trades are only created from images and deleted *)
ServeCreateImageTrade == CreateTradeFrom(ImageTradeCreates)

NextImageTrades ==
    \/ ServeCreateImageTrade
    \/ ServeDeleteTrade
    \/ AwaitRequest

SpecImageTrades == InitStore /\ [][NextImageTrades]_vars

-----------------------------------------------------------------------------
(* Properties of the store endpoints *)

(* the endpoint answered a request that passed get_current_user *)
Entered(endpoints) ==
    /\ response # NoResponse
    /\ request.endpoint \in endpoints
    /\ supabase
    /\ \E u \in Users : request.authorization = Bearer(TokenOf(u))

(* the user of the request *)
Caller == CHOOSE u \in Users : request.authorization = Bearer(TokenOf(u))

(* the two sequences hold the same elements, each as many times *)
SameBag(q, r) ==
    /\ Len(q) = Len(r)
    /\ \E order \in Orders(Len(q)) : \A k \in 1..Len(q) : q[k] = r[order[k]]

(* the row holds the asset a of the user *)
RowHolds(row, user, a) ==
    /\ row.user_id = user
    /\ row.name = a.name /\ row.is_stock = a.isStock /\ row.ticker = a.ticker
    /\ row.shares = a.shares /\ row.current_price = a.currentPrice
    /\ row.purchase_price = a.purchasePrice /\ row.balance = a.balance /\ row.apy = a.apy

(* the rows of the user in the table portfolio_assets of the store d *)
PortfolioRows(d, user) == SelectSeq(d.portfolio_assets, LAMBDA r : r.user_id = user)

(* the rows of the other users *)
OtherPortfolioRows(d, user) == SelectSeq(d.portfolio_assets, LAMBDA r : r.user_id # user)

(* the rows of the user are one row per element of the asset list *)
IsSnapshot(d, user, asset_list) ==
    /\ Len(PortfolioRows(d, user)) = Len(asset_list)
    /\ \E order \in Orders(Len(asset_list)) :
           \A k \in 1..Len(asset_list) :
               RowHolds(PortfolioRows(d, user)[k], user, asset_list[order[k]])

(* C15: after a save_portfolio by user U with asset list A that reports    *)
(* success, the portfolio_assets rows of U are exactly one row per element *)
(* of A (none when A is empty), the rows of every other user are           *)
(* unchanged, and a get_portfolio by U that follows answers exactly the    *)
(* assets of A with the same field values, in whatever order the store     *)
(* gives the rows.                                                         *)
C15_SaveReplacesWholeCollection ==
    Entered({"save_portfolio"}) /\ Succeeded =>
        /\ IsSnapshot(db, Caller, request.assets)
        /\ OtherPortfolioRows(db, Caller) = OtherPortfolioRows(before, Caller)
        /\ \A order \in Orders(Len(PortfolioRows(db, Caller))) :
               LET got == ExceptException(get_portfolio(db, Caller, order, 0).outcome, "")
               IN got.status_code = 200 /\ SameBag(got.records, request.assets)

(* user A replaced a portfolio of one asset by the two assets of the test, *)
(* while user B has rows                                                   *)
C15_Witness ==
    /\ Entered({"save_portfolio"}) /\ Succeeded
    /\ Caller = "A"
    /\ request.assets = <<AppleAsset, SavingsAsset>>
    /\ Len(PortfolioRows(before, "A")) = 1
    /\ Len(PortfolioRows(db, "A")) = 2
    /\ Len(PortfolioRows(db, "B")) = 2

(* the tables whose rows carry an id, and the endpoints on them *)
RowTables == {"trades", "watchlist", "journal"}

RowEndpoints == StoreEndpoints \ {"save_portfolio", "get_portfolio"}

(* the table a list endpoint reads *)
ListedTable ==
    [get_trades |-> "trades", get_watchlist |-> "watchlist", get_journal_entries |-> "journal"]

(* C16: a create, update, delete or list request on trades, watchlist or   *)
(* journal issued by one user, with any row id, leaves every row of every  *)
(* other user unchanged and present, and a list answer holds only rows of  *)
(* the caller; holding at every request, it holds after any sequence.      *)
C16_PerUserIsolation ==
    Entered(RowEndpoints) =>
        /\ \A table \in RowTables : \A other \in Users \ {Caller} :
               OwnedBy(db[table], other) = OwnedBy(before[table], other)
        /\ request.endpoint \in DOMAIN ListedTable /\ Succeeded =>
               /\ \A listed \in response.records :
                      \A r \in db[ListedTable[request.endpoint]] :
                          r.id = listed.id => r.user_id = Caller
               /\ {listed.id : listed \in response.records}
                      = {r.id : r \in OwnedBy(db[ListedTable[request.endpoint]], Caller)}

(* user A asked to delete the watchlist item of user B by its id, and the  *)
(* item is still there                                                     *)
C16_Witness ==
    /\ Entered({"delete_watchlist_item"})
    /\ Caller = "A"
    /\ request.id = 2
    /\ \E r \in db.watchlist : r.id = 2 /\ r.user_id = "B"
    /\ response.status_code = 404

(* C17: after a save_portfolio request, whether or not a store call failed *)
(* part-way, the stored portfolio of the user is exactly the rows from     *)
(* before the request when the request reports failure, and exactly the    *)
(* new snapshot when it reports success.                                   *)
C17_SaveOutcomeIsDefinite ==
    Entered({"save_portfolio"}) =>
        IF Succeeded
        THEN IsSnapshot(db, Caller, request.assets)
        ELSE PortfolioRows(db, Caller) = PortfolioRows(before, Caller)

(* no call to the store raised during the request *)
NoStoreFailure == \A k \in 1..Len(store_calls) : store_calls[k] # "raises"

(* the request names a row id that no row of the caller has *)
NoRowMatches(table) == Matching(before[table], request.id, Caller) = {}

(* C18: a not-found or bad-request outcome that a handler determines       *)
(* reaches the caller with its status: update_trade and delete_trade for   *)
(* an id with no row matching (id, user) answer 404, and update_trade with *)
(* no field to update answers 400.                                         *)
C18_CategoryReachesCaller ==
    /\ Entered({"delete_trade"}) /\ NoStoreFailure /\ NoRowMatches("trades")
           => response.status_code = 404
    /\ Entered({"update_trade"}) /\ NoStoreFailure
           => /\ DOMAIN TradeUpdateData(request.trade_data) = {} => response.status_code = 400
              /\ DOMAIN TradeUpdateData(request.trade_data) # {} /\ NoRowMatches("trades")
                     => response.status_code = 404

(* the Authorization header is missing or does not start with "Bearer " *)
MissingOrMalformed(authorization) ==
    authorization = NoHeader \/ authorization.prefix # "Bearer "

(* the header carries a token that the identity provider rejects *)
RejectedToken(authorization) ==
    /\ ~MissingOrMalformed(authorization)
    /\ \A u \in Users : authorization.token # TokenOf(u)

(* C19: an endpoint behind get_current_user that is called with no         *)
(* Authorization header, with a header that does not start with "Bearer ", *)
(* or with a token the identity provider rejects answers 401 and makes no  *)
(* call to the store, which stays as it was; for a missing or malformed    *)
(* header this holds whether or not the store client is configured, for a  *)
(* rejected token when the client that reaches the provider is configured. *)
C19_UnauthorizedIsBlocked ==
    /\ response # NoResponse /\ request.endpoint \in ProtectedEndpoints
       /\ (\/ MissingOrMalformed(request.authorization)
           \/ supabase /\ RejectedToken(request.authorization))
           => /\ response.status_code = 401
              /\ store_calls = <<>>
              /\ db = before
    /\ \A authorization \in Headers :
           /\ MissingOrMalformed(authorization)
                  => get_current_user(authorization).exc.status_code = 401
           /\ supabase /\ RejectedToken(authorization)
                  => get_current_user(authorization).exc.status_code = 401

(* a request without header was answered while the store client is not     *)
(* configured                                                               *)
C19_Witness ==
    /\ response # NoResponse
    /\ request.endpoint = "get_trades"
    /\ request.authorization = NoHeader
    /\ ~supabase
    /\ response.status_code = 401

(* a request with an expired token was answered *)
C19_WitnessRejected ==
    /\ response # NoResponse
    /\ request.endpoint = "save_portfolio"
    /\ RejectedToken(request.authorization)
    /\ supabase
    /\ response.status_code = 401

-----------------------------------------------------------------------------
(* Quote lookup: GET /api/prices *)

(* tickers.split(',') *)
RECURSIVE Split(_)
Split(chars) ==
    IF \E k \in 1..Len(chars) : chars[k] = ","
    THEN LET k == CHOOSE j \in 1..Len(chars) :
                      chars[j] = "," /\ \A h \in 1..(j - 1) : chars[h] # ","
         IN <<SubSeq(chars, 1, k - 1)>> \o Split(SubSeq(chars, k + 1, Len(chars)))
    ELSE <<chars>>

(* [ticker.strip().upper() for ticker in tickers.split(',') if ticker.strip()] *)
ticker_list(tickers) ==
    LET pieces == SelectSeq(Split(tickers), LAMBDA p : Strip(p) # <<>>)
    IN [k \in 1..Len(pieces) |-> UpperStr(Strip(pieces[k]))]

(* what the provider gives for a symbol: t.fast_info with its last_price,  *)
(* t.history(period="1d") and t.history(period="5d") as the closes of      *)
(* their rows; each of the three may raise                                 *)
Quote(last_price, closes_1d, closes_5d) ==
    [fast_info |-> [raises |-> FALSE, last_price |-> last_price],
     history_1d |-> [raises |-> FALSE, Close |-> closes_1d],
     history_5d |-> [raises |-> FALSE, Close |-> closes_5d]]

FastInfoRaises(q) == [q EXCEPT !.fast_info.raises = TRUE]

History1dRaises(q) == [q EXCEPT !.history_1d.raises = TRUE]

History5dRaises(q) == [q EXCEPT !.history_5d.raises = TRUE]

(* a symbol the provider does not know: no price and empty histories *)
NoQuote == Quote(JNull, <<>>, <<>>)

(* yf.Ticker(ticker) *)
Ticker(ticker) == IF ticker \in DOMAIN yf THEN yf[ticker] ELSE NoQuote

(* prices = {}; daily_data = {}; failed_tickers = [] *)
NoPrices == [prices |-> <<>>, daily_data |-> <<>>, failed_tickers |-> <<>>]

(* (daily_change / yesterday_close) * 100 if yesterday_close > 0 else 0,   *)
(* to the thousandth                                                       *)
ChangePercent(daily_change, yesterday_close) ==
    IF yesterday_close > 0
    THEN IF daily_change >= 0
         THEN (daily_change * 100 * Scale) \div yesterday_close
         ELSE 0 - (((0 - daily_change) * 100 * Scale) \div yesterday_close)
    ELSE 0

(* the body of the loop over ticker_list for one ticker *)
FetchTicker_FailureClearsPrices(fetched, ticker) ==
    LET t == Ticker(ticker)
        fallback == t.fast_info.last_price = JNull
        current_price == IF ~fallback THEN t.fast_info.last_price.n
                         ELSE t.history_1d.Close[Len(t.history_1d.Close)]
        failed == [fetched EXCEPT !.failed_tickers = Append(@, ticker), !.prices = <<>>]
        priced == [fetched EXCEPT !.prices = Put(@, ticker, current_price)]
        yesterday_close == t.history_5d.Close[Len(t.history_5d.Close) - 1]
    IN IF t.fast_info.raises THEN failed
       ELSE IF fallback /\ t.history_1d.raises THEN failed
       ELSE IF fallback /\ t.history_1d.Close = <<>> THEN failed
       ELSE IF t.history_5d.raises \/ Len(t.history_5d.Close) < 2
       THEN [priced EXCEPT !.failed_tickers = Append(@, ticker)]
       ELSE [priced EXCEPT !.daily_data =
                Put(@, ticker,
                    [yesterday_close |-> yesterday_close,
                     current |-> current_price,
                     change |-> current_price - yesterday_close,
                     change_percent |->
                         ChangePercent(current_price - yesterday_close, yesterday_close)])]

FetchTicker(fetched, ticker) ==
    LET t == Ticker(ticker)
        fallback == t.fast_info.last_price = JNull
        current_price == IF ~fallback THEN t.fast_info.last_price.n
                         ELSE t.history_1d.Close[Len(t.history_1d.Close)]
        failed == [fetched EXCEPT !.failed_tickers = Append(@, ticker)]
        priced == [fetched EXCEPT !.prices = Put(@, ticker, current_price)]
        yesterday_close == t.history_5d.Close[Len(t.history_5d.Close) - 1]
    IN IF t.fast_info.raises THEN failed
       ELSE IF fallback /\ t.history_1d.raises THEN failed
       ELSE IF fallback /\ t.history_1d.Close = <<>> THEN failed
       ELSE IF t.history_5d.raises \/ Len(t.history_5d.Close) < 2
       THEN [priced EXCEPT !.failed_tickers = Append(@, ticker)]
       ELSE [priced EXCEPT !.daily_data =
                Put(@, ticker,
                    [yesterday_close |-> yesterday_close,
                     current |-> current_price,
                     change |-> current_price - yesterday_close,
                     change_percent |->
                         ChangePercent(current_price - yesterday_close, yesterday_close)])]

(* for ticker in ticker_list: ... *)
RECURSIVE FetchAll(_, _)
FetchAll(fetched, tickers) ==
    IF tickers = <<>> THEN fetched
    ELSE FetchAll(FetchTicker(fetched, Head(tickers)), Tail(tickers))

(* the answer of get_prices, without its timestamp *)
PricesAnswer(fetched) ==
    [status_code |-> 200, prices |-> fetched.prices, daily_data |-> fetched.daily_data,
     failed_tickers |-> fetched.failed_tickers]

(* GET /api/prices?tickers=... *)
get_prices(tickers) ==
    ExceptException(
        IF ticker_list(tickers) = <<>> THEN RaiseHTTP(400, "No valid tickers provided")
        ELSE Return(PricesAnswer(FetchAll(NoPrices, ticker_list(tickers)))),
        "Error fetching prices")

-----------------------------------------------------------------------------
(* Specification of the quote lookup: the provider's data for two symbols  *)
(* and the tickers parameter of one request                                *)

(* the longest tickers parameter *)
MaxTickersLen == 4

TickerChars == {"a", "B", " ", ","}

Symbols == {<<"A">>, <<"B">>}

(* closes in thousandths: 100.000 and 110.000 *)
Close_100 == 100 * Scale

Close_110 == 110 * Scale

Quotes ==
    {Quote(JFloat(Close_110), <<Close_110>>, <<Close_100, Close_110>>),
     Quote(JNull, <<Close_110>>, <<Close_110, Close_100, Close_110>>),
     Quote(JFloat(Close_100), <<Close_100>>, <<0, Close_100>>),
     NoQuote,
     FastInfoRaises(NoQuote),
     History1dRaises(NoQuote),
     Quote(JFloat(Close_110), <<Close_110>>, <<>>),
     Quote(JFloat(Close_110), <<Close_110>>, <<Close_110>>),
     History5dRaises(Quote(JFloat(Close_110), <<Close_110>>, <<>>))}

InitPrices ==
    /\ ValidatorUnused
    /\ SessionUnused
    /\ PortfolioUnused
    /\ StoreUnused
    /\ gemini = <<>>
    /\ supabase = FALSE
    /\ yf \in [Symbols -> Quotes]
    /\ \E tickers \in SeqsUpTo(TickerChars, MaxTickersLen) :
           request = [endpoint |-> "get_prices", tickers |-> tickers]
    /\ response = NoResponse

ServeGetPrices == Answer("get_prices", get_prices(request.tickers))

NextPrices == ServeGetPrices

SpecPrices == InitPrices /\ [][NextPrices]_vars

-----------------------------------------------------------------------------
(* Properties of the quote lookup *)

(* the tickers the request asks for *)
Requested == ticker_list(request.tickers)

(* the elements of a list *)
Elements(list) == {list[k] : k \in 1..Len(list)}

(* the provider raises for the ticker, or has no price or no daily history *)
(* for it                                                                  *)
NoDataOrRaises(ticker) ==
    LET t == Ticker(ticker)
    IN \/ t.fast_info.raises \/ t.history_1d.raises \/ t.history_5d.raises
       \/ t.fast_info.last_price = JNull /\ t.history_1d.Close = <<>>
       \/ t.history_5d.Close = <<>>

(* the entry of the key in the dict, if any *)
EntryOf(d, key) == IF key \in DOMAIN d THEN <<d[key]>> ELSE <<>>

(* the result of the lookup had the ticker not been requested *)
FetchedWithout(ticker) ==
    FetchAll(NoPrices, SelectSeq(Requested, LAMBDA x : x # ticker))

(* C20: a get_prices request with at least one valid ticker succeeds; a    *)
(* ticker for which the provider returns no data or raises is listed in    *)
(* failed_tickers, and the prices and daily_data entries of every other    *)
(* ticker are those of the lookup without the failing ticker.              *)
C20_FailingTickerIsIsolated ==
    response # NoResponse /\ request.endpoint = "get_prices" /\ Requested # <<>> =>
        /\ Succeeded
        /\ \A failing \in Elements(Requested) :
               NoDataOrRaises(failing) =>
                   /\ failing \in Elements(response.failed_tickers)
                   /\ \A other \in Elements(Requested) \ {failing} :
                          /\ EntryOf(response.prices, other)
                                 = EntryOf(FetchedWithout(failing).prices, other)
                          /\ EntryOf(response.daily_data, other)
                                 = EntryOf(FetchedWithout(failing).daily_data, other)

(* B was asked before A; the provider raises for A and quotes B, and the   *)
(* answer holds the price and the daily data of B                           *)
C20_Witness ==
    /\ response # NoResponse /\ request.endpoint = "get_prices"
    /\ Requested = << <<"B">>, <<"A">> >>
    /\ yf[<<"A">>].fast_info.raises
    /\ ~NoDataOrRaises(<<"B">>)
    /\ <<"A">> \in Elements(response.failed_tickers)
    /\ DOMAIN response.prices = {<<"B">>}
    /\ DOMAIN response.daily_data = {<<"B">>}

-----------------------------------------------------------------------------
(* Code fences *)

(* the text is a fenced code block around one JSON array: an opening       *)
(* fence, with or without the word json, the array, a closing fence        *)
IsFencedArray(text) ==
    /\ Len(text) >= 3
    /\ Head(text) \in {FenceJson, Fence}
    /\ text[Len(text)] = Fence
    /\ \E v \in {text[j].v : j \in 2..(Len(text) - 1)} :
           v.t = "list" /\ StripText(SubSeq(text, 2, Len(text) - 1)) = <<Document(v)>>

(* the array of a fenced array, on its own *)
Unfenced(text) == StripText(SubSeq(text, 2, Len(text) - 1))

(* a single-image endpoint answered a request that passed get_current_user *)
(* for an image that decodes and a reply with a text                       *)
AnsweredText ==
    /\ Answered
    /\ request.endpoint \in {"parse_image", "parse_trade_image"}
    /\ PassesAuth
    /\ request.images[1].image = "png"
    /\ gemini[1].kind = "text"

(* C21: both parsers strip a leading and a trailing code-fence marker      *)
(* before parsing, so a valid JSON array in a fenced code block gives the  *)
(* records of the same array unfenced, and a response that still fails to  *)
(* parse gives the empty result, never an exception.                       *)
C21_FencedIsUnfenced ==
    AnsweredText =>
        /\ Succeeded
        /\ IsFencedArray(gemini[1].text) =>
               response.records
                   = ParseImage(IF IsTradeEndpoint(request.endpoint) THEN "trades" ELSE "assets",
                                "png", Text(Unfenced(gemini[1].text))).value
        /\ NotParseable(gemini[1]) => response.records = <<>>

-----------------------------------------------------------------------------
(* Trades *)

(* the stored trades of the user that the requested trade repeats *)
SameTrade(rows, user, trade_data) ==
    {r \in rows : /\ r.user_id = user
                  /\ r.date = trade_data.date
                  /\ r.ticker.s = UpperStr(trade_data.ticker.s)
                  /\ r.realized_pnl = trade_data.realized_pnl
                  /\ r.percent_diff = trade_data.percent_diff}

(* the trade answered is the row *)
AnswersRow(r) ==
    /\ response.records.id = r.id
    /\ response.records.date = r.date
    /\ response.records.ticker = r.ticker
    /\ response.records.realized_pnl = r.realized_pnl
    /\ response.records.percent_diff = r.percent_diff

(* C22: create_trade with is_image_upload true for a trade the user has    *)
(* already stored (same date, same upper-cased ticker, equal realized_pnl  *)
(* and percent_diff) answers that trade with is_duplicate true and leaves  *)
(* the store unchanged; in every other case, when no store call raises,    *)
(* exactly one row is inserted for the user, with the ticker upper-cased,  *)
(* and the answer has is_duplicate false.                                  *)
C22_DuplicateTradeDetection ==
    Entered({"create_trade"}) /\ NoStoreFailure =>
        LET trade_data == request.trade_data
            same == SameTrade(before.trades, Caller, trade_data)
        IN /\ Succeeded
           /\ IF trade_data.is_image_upload /\ same # {}
              THEN /\ response.is_duplicate
                   /\ db = before
                   /\ \E r \in same : AnswersRow(r)
              ELSE /\ ~response.is_duplicate
                   /\ \E r \in db.trades \ before.trades :
                          /\ db.trades = before.trades \cup {r}
                          /\ r.user_id = Caller
                          /\ r.date = trade_data.date
                          /\ r.ticker.s = UpperStr(trade_data.ticker.s)
                          /\ r.realized_pnl = trade_data.realized_pnl
                          /\ r.percent_diff = trade_data.percent_diff
                          /\ \A other \in before.trades : other.id # r.id
                          /\ AnswersRow(r)
                   /\ db.watchlist = before.watchlist /\ db.journal = before.journal
                   /\ db.portfolio_assets = before.portfolio_assets

(* user A created from an image a trade that differs from the stored one   *)
(* in percent_diff only, and holds both                                    *)
C22_Witness ==
    /\ Entered({"create_trade"}) /\ NoStoreFailure
    /\ Caller = "A"
    /\ request.trade_data.is_image_upload
    /\ request.trade_data.percent_diff = JFloat(1000)
    /\ SameTrade(before.trades, "A", request.trade_data) = {}
    /\ SameTrade(before.trades, "A", [request.trade_data EXCEPT !.percent_diff = JNull]) # {}
    /\ ~response.is_duplicate
    /\ Cardinality(OwnedBy(db.trades, "A")) = 2

(* user A created from an image the trade already stored *)
C22_WitnessDuplicate ==
    /\ Entered({"create_trade"}) /\ NoStoreFailure
    /\ Caller = "A"
    /\ request.trade_data.is_image_upload
    /\ response.is_duplicate
    /\ db = before

(* the two rows are the same trade of the same user *)
SameFour(r, q) ==
    /\ r.user_id = q.user_id
    /\ r.date = q.date
    /\ r.ticker = q.ticker
    /\ r.realized_pnl = q.realized_pnl
    /\ r.percent_diff = q.percent_diff

(* C23: when trades are only created with is_image_upload true and         *)
(* deleted, no user ever has two stored trades with the same date, ticker, *)
(* realized_pnl and percent_diff, and after an image-sourced create that   *)
(* succeeded, repeated or not, the user has exactly one such row.          *)
C23_ImageTradesAreUnique ==
    /\ \A r \in db.trades : \A q \in db.trades : SameFour(r, q) => r = q
    /\ Entered({"create_trade"}) /\ Succeeded =>
           Cardinality(SameTrade(db.trades, Caller, request.trade_data)) = 1

(* user A repeated the image-sourced create of the request before: the     *)
(* second answer is the row the first one inserted                         *)
C23_Witness ==
    /\ Entered({"create_trade"}) /\ Succeeded
    /\ Caller = "A"
    /\ served = 2
    /\ response.is_duplicate
    /\ response.records.id = 3
    /\ db = before
    /\ Cardinality(OwnedBy(db.trades, "A")) = 2

-----------------------------------------------------------------------------
(* Watchlist tickers *)

ServeCreateTickerItem == CreateWatchlistItemFrom(TickerCreates)

ServeUpdateTickerItem == UpdateWatchlistItemFrom(TickerUpdates)

NextWatchlist ==
    \/ ServeCreateTickerItem
    \/ ServeUpdateTickerItem
    \/ ServeDeleteWatchlistItem
    \/ AwaitRequest

SpecWatchlist == InitStore /\ [][NextWatchlist]_vars

(* the rows of the table that belong to the user and hold the ticker,      *)
(* compared after trimming and upper-casing                                *)
SameTicker(rows, user, ticker) ==
    {r \in OwnedBy(rows, user) : UpperOf(Stripped(r.ticker)) = UpperOf(Stripped(ticker))}

(* C24: after any sequence of create_watchlist_item, update_watchlist_item *)
(* and delete_watchlist_item requests no user has two watchlist rows with  *)
(* the same ticker, compared after trimming and upper-casing; and          *)
(* create_watchlist_item for a ticker the user already has answers 400 and *)
(* inserts nothing.                                                        *)
C24_WatchlistTickersUnique ==
    /\ \A r \in db.watchlist :
           Cardinality(SameTicker(db.watchlist, r.user_id, r.ticker)) = 1
    /\ /\ Entered({"create_watchlist_item"})
       /\ NoStoreFailure
       /\ SameTicker(before.watchlist, Caller, request.item.ticker) # {}
       => /\ response.status_code = 400
          /\ db = before

-----------------------------------------------------------------------------
(* update_trade *)

TradeFields == {"date", "ticker", "realized_pnl", "percent_diff"}

(* the row with each field the request gives taking the requested value    *)
(* (the ticker upper-cased) and every other field as stored                *)
WithRequested(r, trade_data) ==
    [k \in DOMAIN r |->
        IF k \in TradeFields /\ trade_data[k] # JNull
        THEN (IF k = "ticker" THEN JStr(UpperStr(trade_data.ticker.s)) ELSE trade_data[k])
        ELSE r[k]]

NoFieldGiven(trade_data) == \A k \in TradeFields : trade_data[k] = JNull

(* C25: update_trade changes only what was provided: in the row matching   *)
(* (trade_id, user_id) each of date, ticker, realized_pnl and percent_diff *)
(* that is non-null in the request takes the requested value, the ticker   *)
(* upper-cased, and every field that is null in the request keeps its      *)
(* stored value; no other row is changed, and a request with no non-null   *)
(* field changes no row at all.                                            *)
C25_UpdateChangesOnlyProvided ==
    Entered({"update_trade"}) =>
        /\ NoStoreFailure =>
               db.trades = {IF r.id = request.id /\ r.user_id = Caller
                            THEN WithRequested(r, request.trade_data) ELSE r :
                            r \in before.trades}
        /\ \A r \in before.trades :
               ~(r.id = request.id /\ r.user_id = Caller) => r \in db.trades
        /\ \A table \in DOMAIN db \ {"trades"} : db[table] = before[table]
        /\ NoFieldGiven(request.trade_data) => db = before

(* user A changed the date, the ticker and the percent_diff of the trade   *)
(* it has and gave no realized_pnl: the row keeps its realized_pnl and the *)
(* trade of user B is as it was                                            *)
C25_Witness ==
    /\ Entered({"update_trade"})
    /\ Caller = "A"
    /\ request.id = 1
    /\ request.trade_data.realized_pnl = JNull
    /\ request.trade_data.ticker = T_x
    /\ Succeeded
    /\ \E r \in db.trades :
           /\ r.id = 1
           /\ r.ticker = JStr(<<"X">>)
           /\ r.date = D_2
           /\ r.realized_pnl = JFloat(2000)
    /\ \E r \in db.trades : r.id = 2 /\ r \in before.trades

(* a request that gives no field: no row changes *)
C25_WitnessNoField ==
    /\ Entered({"update_trade"})
    /\ Caller = "A"
    /\ request.id = 1
    /\ NoFieldGiven(request.trade_data)
    /\ ~Succeeded
    /\ db = before

-----------------------------------------------------------------------------
(* Prices and failed tickers *)

(* C29: in every get_prices response no ticker listed in failed_tickers    *)
(* has an entry in prices, and a ticker has an entry in prices exactly     *)
(* when it has an entry in daily_data.                                     *)
C29_FailedTickersHaveNoPrice ==
    response # NoResponse /\ request.endpoint = "get_prices" /\ Succeeded =>
        /\ Elements(response.failed_tickers) \cap DOMAIN response.prices = {}
        /\ DOMAIN response.prices = DOMAIN response.daily_data


-----------------------------------------------------------------------------
(* Specification of the analytics: the trades user A has when the first    *)
(* request arrives, and create_trade, update_trade and get_trade_analytics *)
(* requests                                                                *)

(* the most trades user A starts with *)
MaxTrades == 2

IsoDate(month, day) ==
    JStr(<<"2", "0", "2", "5", "-", "0", month, "-">> \o day)

DatedTrade(date, realized_pnl) ==
    [date |-> date, ticker |-> T_x, realized_pnl |-> realized_pnl, percent_diff |-> JNull,
     is_image_upload |-> FALSE]

(* trades with an amount in thousandths and an ISO date: a gain and a loss *)
(* in one month, a trade that broke even and a gain in the next            *)
DatedTrades ==
    {DatedTrade(IsoDate("8", <<"1", "5">>), JFloat(2000)),
     DatedTrade(IsoDate("8", <<"1", "5">>), JFloat(0 - 1000)),
     DatedTrade(IsoDate("9", <<"0", "1">>), JFloat(0)),
     DatedTrade(IsoDate("9", <<"0", "1">>), JFloat(2000))}

(* the trades created: dated ones, one without realized_pnl, and one whose *)
(* date is not an ISO date                                                 *)
AnalyticsTradeCreates ==
    {[date |-> IsoDate("8", <<"1", "5">>), ticker |-> T_x, realized_pnl |-> JFloat(2000),
      percent_diff |-> JNull, is_image_upload |-> FALSE],
     [date |-> IsoDate("9", <<"0", "1">>), ticker |-> T_x, realized_pnl |-> JNull,
      percent_diff |-> JNull, is_image_upload |-> FALSE],
     [date |-> D_1, ticker |-> T_x, realized_pnl |-> JFloat(0), percent_diff |-> JNull,
      is_image_upload |-> FALSE]}

(* the store after user A created the trades, in this order *)
RECURSIVE StoreWith(_)
StoreWith(created) ==
    IF created = <<>> THEN [InitialStore EXCEPT !.trades = {}, !.next_id.trades = 1]
    ELSE Inserted(StoreWith(SubSeq(created, 1, Len(created) - 1)), "trades",
                  TradeRow("A", created[Len(created)]))

InitAnalytics ==
    /\ ValidatorUnused
    /\ SessionUnused
    /\ PortfolioUnused
    /\ gemini = <<>>
    /\ yf = <<>>
    /\ supabase = TRUE
    /\ \E created \in SeqsUpTo(DatedTrades, MaxTrades) : db = StoreWith(created)
    /\ before = db
    /\ store_calls = <<>>
    /\ served = 0
    /\ request = [endpoint |-> "none"]
    /\ response = NoResponse

ServeCreateAnalyticsTrade == CreateTradeFrom(AnalyticsTradeCreates)

ServeGetTradeAnalytics ==
    \E authorization \in StoreHeaders, fail \in Failures :
        LET did == get_trade_analytics(db, user_id(authorization), fail)
        IN Serve([endpoint |-> "get_trade_analytics", authorization |-> authorization],
                 did, ExceptException(did.outcome, "Failed to get trade analytics"), fail,
                 <<"select">>)

NextAnalytics ==
    \/ ServeCreateAnalyticsTrade
    \/ ServeUpdateTrade
    \/ ServeGetTradeAnalytics
    \/ AwaitRequest

SpecAnalytics == InitAnalytics /\ [][NextAnalytics]_vars

-----------------------------------------------------------------------------
(* Properties of the analytics *)

(* the trades of the user of the request *)
CallerTrades == OwnedBy(db.trades, Caller)

(* every trade has a number as realized_pnl and an ISO date *)
NumericAndDated(rows) ==
    \A t \in rows : t.realized_pnl.t = "float" /\ ~fromisoformat(t.date.s).raises

(* the sum of the counter over the months *)
RECURSIVE OverMonths(_, _)
OverMonths(monthly_performance, counter) ==
    IF DOMAIN monthly_performance = {} THEN 0
    ELSE LET month == CHOOSE key \in DOMAIN monthly_performance : TRUE
         IN monthly_performance[month][counter]
                + OverMonths([key \in DOMAIN monthly_performance \ {month} |->
                                 monthly_performance[key]], counter)

(* C26: for any set of a user's trades with numeric realized_pnl and ISO   *)
(* dates get_trade_analytics is consistent: total_trades is the number of  *)
(* trades, winning_trades + losing_trades is at most total_trades and the  *)
(* difference is the number of trades whose realized_pnl is exactly 0, and *)
(* over the months of monthly_performance the sums of total_trades,        *)
(* winning_trades and losing_trades are the overall ones; a user with no   *)
(* trades gets all counters 0 and an empty monthly_performance.            *)
C26_AnalyticsAreConsistent ==
    /\ Entered({"get_trade_analytics"})
    /\ NoStoreFailure
    /\ NumericAndDated(CallerTrades)
    => /\ Succeeded
       /\ response.total_trades = Cardinality(CallerTrades)
       /\ response.winning_trades + response.losing_trades <= response.total_trades
       /\ response.total_trades - (response.winning_trades + response.losing_trades)
              = Cardinality({t \in CallerTrades : t.realized_pnl.n = 0})
       /\ \A counter \in {"total_trades", "winning_trades", "losing_trades"} :
              OverMonths(response.monthly_performance, counter) = response[counter]
       /\ CallerTrades = {} =>
              /\ \A counter \in {"total_trades", "winning_trades", "losing_trades",
                                 "success_rate", "total_pnl", "average_pnl"} :
                     response[counter] = 0
              /\ response.monthly_performance = <<>>

(* user A has a gain, a loss and a trade that broke even, in two months *)
C26_Witness ==
    /\ Entered({"get_trade_analytics"})
    /\ Caller = "A"
    /\ Succeeded
    /\ response.total_trades = 3
    /\ response.winning_trades = 1
    /\ response.losing_trades = 1
    /\ Cardinality(DOMAIN response.monthly_performance) = 2

(* user B has no trades *)
C26_WitnessNoTrades ==
    /\ Entered({"get_trade_analytics"})
    /\ Caller = "B"
    /\ Succeeded
    /\ response.total_trades = 0
    /\ db.trades # {}

(* C27: get_trade_analytics succeeds for every set of trades that can be   *)
(* stored through create_trade and update_trade, trades created without    *)
(* realized_pnl and trades whose date is an arbitrary string included.     *)
C27_AnalyticsSucceed ==
    Entered({"get_trade_analytics"}) /\ NoStoreFailure => Succeeded

-----------------------------------------------------------------------------
(* main.py: the Portfolio object *)

(* Asset.__init__ by way of StockAsset.__init__ and BankAsset.__init__: the *)
(* fields the subclass does not pass are None                               *)
StockAsset(name, ticker, num_shares, price) ==
    [class |-> "StockAsset", name |-> name, ticker |-> ticker, num_shares |-> num_shares,
     price |-> price, balance |-> JNull, apy |-> JNull]

BankAsset(name, balance, apy) ==
    [class |-> "BankAsset", name |-> name, ticker |-> JNull, num_shares |-> JNull,
     price |-> JNull, balance |-> balance, apy |-> apy]

(* Portfolio.__init__ *)
NewPortfolio == [assets |-> <<>>, value |-> 0]

(* Portfolio.add_stock_asset *)
add_stock_asset_PriceOnly(self, an_asset) ==
    [assets |-> Append(self.assets, an_asset),
     value |-> IF an_asset.price # JNull THEN self.value + an_asset.price.n ELSE self.value]

add_stock_asset(self, an_asset) ==
    [assets |-> Append(self.assets, an_asset),
     value |-> IF an_asset.num_shares # JNull /\ an_asset.price # JNull
               THEN self.value + an_asset.num_shares.n * an_asset.price.n
               ELSE self.value]

(* Portfolio.add_bank_asset *)
add_bank_asset(self, an_asset) ==
    [assets |-> Append(self.assets, an_asset),
     value |-> IF an_asset.balance # JNull THEN self.value + an_asset.balance.n ELSE self.value]

(* the most assets added to the portfolio *)
MaxAssets == 3

(* numbers of shares, prices and balances: unset, zero, positive, negative *)
Quantities == {JNull, JInt(0), JInt(2), JInt(0 - 3)}

StockAssets ==
    {StockAsset(JStr(<<"S">>), T_x, num_shares, price) :
        num_shares \in Quantities, price \in Quantities}

BankAssets == {BankAsset(JStr(<<"B">>), balance, JNull) : balance \in Quantities}

InitPortfolio ==
    /\ ValidatorUnused
    /\ SessionUnused
    /\ StoreUnused
    /\ gemini = <<>>
    /\ yf = <<>>
    /\ supabase = FALSE
    /\ request = [endpoint |-> "none"]
    /\ response = NoResponse
    /\ portfolio = NewPortfolio

(* a call of a method of the portfolio with the asset *)
Call(method, an_asset, after) ==
    /\ Len(portfolio.assets) < MaxAssets
    /\ request' = [endpoint |-> method, asset |-> an_asset]
    /\ portfolio' = after
    /\ UNCHANGED <<validator_vars, response, gemini, yf, supabase, db, before, store_calls,
                   served, session>>

AddStockAsset ==
    \E an_asset \in StockAssets :
        Call("add_stock_asset", an_asset, add_stock_asset(portfolio, an_asset))

AddBankAsset ==
    \E an_asset \in BankAssets :
        Call("add_bank_asset", an_asset, add_bank_asset(portfolio, an_asset))

NextPortfolio == AddStockAsset \/ AddBankAsset

SpecPortfolio == InitPortfolio /\ [][NextPortfolio]_vars

(* what an asset adds to the value: num_shares * price of a stock asset    *)
(* with both set, the balance of a bank asset with the balance set         *)
Worth(an_asset) ==
    IF an_asset.class = "StockAsset"
    THEN (IF an_asset.num_shares # JNull /\ an_asset.price # JNull
          THEN an_asset.num_shares.n * an_asset.price.n ELSE 0)
    ELSE (IF an_asset.balance # JNull THEN an_asset.balance.n ELSE 0)

RECURSIVE TotalWorth(_)
TotalWorth(list) ==
    IF list = <<>> THEN 0 ELSE Worth(Head(list)) + TotalWorth(Tail(list))

(* a field the value is computed from is unset *)
HasUnsetField(an_asset) ==
    IF an_asset.class = "StockAsset"
    THEN an_asset.num_shares = JNull \/ an_asset.price = JNull
    ELSE an_asset.balance = JNull

(* C30: after any sequence of add_stock_asset and add_bank_asset calls on  *)
(* a new Portfolio, assets holds every added asset in call order, one      *)
(* entry per call, and value is the sum of num_shares * price over the     *)
(* stock assets with both set plus the sum of balance over the bank assets *)
(* with the balance set; an asset with an unset field changes assets but   *)
(* not value.                                                              *)
C30_PortfolioHoldsAssetsAndValue ==
    /\ [](portfolio.value = TotalWorth(portfolio.assets))
    /\ [][/\ portfolio'.assets = Append(portfolio.assets, request'.asset)
          /\ HasUnsetField(request'.asset) => portfolio'.value = portfolio.value]_portfolio

(* a stock without a price was added between a bank asset and a stock with *)
(* both fields: it is in assets and the value is that of the other two     *)
C30_Witness ==
    /\ Len(portfolio.assets) = 3
    /\ portfolio.assets[1] = BankAsset(JStr(<<"B">>), JInt(2), JNull)
    /\ portfolio.assets[2] = StockAsset(JStr(<<"S">>), T_x, JInt(2), JNull)
    /\ portfolio.assets[3] = StockAsset(JStr(<<"S">>), T_x, JInt(2), JInt(0 - 3))
    /\ portfolio.value = 2 - 6

-----------------------------------------------------------------------------
(* Sessions: login, logout and /api/auth/me on the one store client *)

(* the accounts of the identity provider *)
Account(user) ==
    [id |-> user, email |-> IF user = "A" THEN "a@x" ELSE "b@x",
     name |-> IF user = "A" THEN "Ann" ELSE "Bob"]

PasswordOf(user) == IF user = "A" THEN "pwA" ELSE "pwB"

(* UserResponse(id=..., email=..., name=...) *)
UserResponse(account) ==
    [status_code |-> 200, id |-> account.id, email |-> account.email, name |-> account.name]

(* supabase.auth.sign_in_with_password: the user whose credentials these   *)
(* are, whose session the client then holds, or an error                   *)
sign_in_with_password(credentials) ==
    IF \E u \in Users : Account(u).email = credentials.email
                        /\ PasswordOf(u) = credentials.password
    THEN [raises |-> FALSE,
          user |-> CHOOSE u \in Users : Account(u).email = credentials.email]
    ELSE [raises |-> TRUE, user |-> NoSession]

(* the session the client holds after login_user *)
SessionAfterLogin(held, user_data) ==
    IF sign_in_with_password(user_data).raises THEN held
    ELSE sign_in_with_password(user_data).user

(* POST /api/auth/login, after `if not supabase` *)
login_user(user_data) ==
    IF sign_in_with_password(user_data).raises
    THEN HTTPException(401, "Invalid credentials")
    ELSE [status_code |-> 200,
          user |-> UserResponse(Account(sign_in_with_password(user_data).user)),
          access_token |-> TokenOf(sign_in_with_password(user_data).user)]

(* POST /api/auth/logout, after `if not supabase`: the header is checked   *)
(* for its form only, and sign_out() drops the session the client holds    *)
logout_user(authorization) ==
    IF authorization = NoHeader \/ authorization.prefix # "Bearer "
    THEN HTTPException(401, "Invalid authorization header")
    ELSE [status_code |-> 200, message |-> "Logged out successfully"]

SessionAfterLogout(held, authorization) ==
    IF authorization = NoHeader \/ authorization.prefix # "Bearer " THEN held ELSE NoSession

(* the try block of GET /api/auth/me and its except clause:                *)
(* supabase.auth.get_user() is called without a token and answers for the  *)
(* session the client holds; without a session it returns None, and        *)
(* user_data.user raises                                                   *)
get_current_user_info(held) ==
    IF held = NoSession THEN HTTPException(401, "Invalid token")
    ELSE UserResponse(Account(held))

(* the credentials presented: those of the two users and a wrong password  *)
Logins ==
    {[email |-> Account(u).email, password |-> PasswordOf(u)] : u \in Users}
        \cup {[email |-> "a@x", password |-> "pwB"]}

InitSessions ==
    /\ ValidatorUnused
    /\ PortfolioUnused
    /\ StoreUnused
    /\ gemini = <<>>
    /\ yf = <<>>
    /\ supabase \in BOOLEAN
    /\ session = NoSession
    /\ request = [endpoint |-> "none"]
    /\ response = NoResponse

(* an endpoint that uses the session of the client answers *)
ServeSession(req, answer, held_after) ==
    /\ MayServe
    /\ served' = served + 1
    /\ request' = req
    /\ response' = IF supabase THEN answer ELSE HTTPException(500, "Supabase not configured")
    /\ session' = IF supabase THEN held_after ELSE session
    /\ UNCHANGED <<validator_vars, gemini, yf, supabase, db, before, store_calls, portfolio>>

ServeLogin ==
    \E user_data \in Logins :
        ServeSession([endpoint |-> "login_user", user_data |-> user_data],
                     login_user(user_data), SessionAfterLogin(session, user_data))

ServeLogout ==
    \E authorization \in StoreHeaders :
        ServeSession([endpoint |-> "logout_user", authorization |-> authorization],
                     logout_user(authorization), SessionAfterLogout(session, authorization))

ServeGetCurrentUserInfo ==
    \E authorization \in StoreHeaders :
        /\ get_current_user(authorization).exc = NoResponse
        /\ ServeSession([endpoint |-> "get_current_user_info",
                         authorization |-> authorization],
                        get_current_user_info(session), session)

NextSessions ==
    \/ ServeLogin
    \/ ServeLogout
    \/ ServeGetCurrentUserInfo
    \/ GetCurrentUserRaises
    \/ AwaitRequest

SpecSessions == InitSessions /\ [][NextSessions]_vars

(* C28: GET /api/auth/me returns the id, email and name of the user the    *)
(* bearer token of the request identifies, in every interleaving with      *)
(* login, logout and /me requests of other users: the answer never depends *)
(* on who logged in most recently through the shared client.               *)
C28_MeAnswersForTheToken ==
    Entered({"get_current_user_info"}) => response = UserResponse(Account(Caller))

====
